---- MODULE Spec2Model ----
(***************************************************************************)
(* Model of tools/gen_data.py of Dump1090: the record functions, the       *)
(* binary table encoder csv_handler.create_bin_file, the build step        *)
(* gen_c_file that sorts the allocation blocks, and the generated          *)
(* classifier aircraft_find_block.                                         *)
(*                                                                         *)
(* A text is a sequence of one-character strings, a row is a sequence of   *)
(* texts (what csv.reader yields for one line), a byte is 0..255 and a     *)
(* file is the sequence of its bytes.                                      *)
(***************************************************************************)
EXTENDS Integers, Sequences, FiniteSets, TLC

(***************************************************************************)
(* Bounds of the model.                                                    *)
(***************************************************************************)
\* largest number of data rows of a merged CSV (Spec)
MaxRows == 2
\* largest number of rows of the allocation-block CSV (SpecBlocks)
MaxBlocks == 2
\* addresses 0 .. MaxAddr are classified
MaxAddr == 15
\* largest number of records of a table the checker is run on (SpecChecker)
MaxRecs == 2

(***************************************************************************)
(* Characters and their code points (Python str -> ord).                   *)
(***************************************************************************)
CodePoint ==
  ("0" :> 48) @@ ("1" :> 49) @@ ("2" :> 50) @@ ("3" :> 51) @@ ("4" :> 52) @@
  ("5" :> 53) @@ ("6" :> 54) @@ ("7" :> 55) @@ ("8" :> 56) @@ ("9" :> 57) @@
  ("A" :> 65) @@ ("B" :> 66) @@ ("C" :> 67) @@ ("D" :> 68) @@ ("E" :> 69) @@
  ("F" :> 70) @@ ("G" :> 71) @@ ("I" :> 73) @@ ("N" :> 78) @@ ("S" :> 83) @@
  ("U" :> 85) @@ ("Z" :> 90) @@ ("a" :> 97) @@ ("d" :> 100) @@ ("f" :> 102) @@
  ("m" :> 109) @@ ("p" :> 112) @@ ("u" :> 117) @@ ("-" :> 45) @@ ("+" :> 43) @@
  ("e'" :> 233) @@     \* U+00E9, a two-byte character in UTF-8
  ("\n" :> 10) @@ ("," :> 44) @@ ("." :> 46) @@ ("/" :> 47) @@ ("?" :> 63) @@
  ("H" :> 72) @@ ("b" :> 98) @@ ("c" :> 99) @@ ("e" :> 101) @@ ("i" :> 105) @@
  ("k" :> 107) @@ ("l" :> 108) @@ ("o" :> 111) @@ ("r" :> 114) @@ ("s" :> 115) @@
  ("t" :> 116) @@ ("v" :> 118) @@ ("x" :> 120) @@ ("z" :> 122) @@
  ("BOM" :> 65279)     \* U+FEFF, the byte order mark: EF BB BF in UTF-8

RECURSIVE Flatten(_)
Flatten(ss) == IF ss = <<>> THEN <<>> ELSE Head(ss) \o Flatten(Tail(ss))

\* str.encode("utf-8") of one character
utf8 (c) ==
  LET cp == CodePoint[c]
  IN  IF cp < 128 THEN <<cp>>
      ELSE IF cp < 2048 THEN <<192 + (cp \div 64), 128 + (cp % 64)>>
      ELSE <<224 + (cp \div 4096), 128 + ((cp \div 64) % 64), 128 + (cp % 64)>>

\* to_bytes (s): bytes (s, encoding = "utf-8")
to_bytes (s) == Flatten ([i \in 1..Len(s) |-> utf8 (s[i])])

(***************************************************************************)
(* Python's int (text, base) on the characters of this model: an optional  *)
(* sign, then one or more digits of the base.  (The model's alphabet has   *)
(* no blank, no '_' and no 'x', which int() treats specially.)             *)
(***************************************************************************)
DigitVal (c) ==
  LET cp == CodePoint[c]
  IN  IF cp >= 48 /\ cp <= 57 THEN cp - 48
      ELSE IF cp >= 65 /\ cp <= 90 THEN cp - 55
      ELSE IF cp >= 97 /\ cp <= 122 THEN cp - 87
      ELSE 99

RECURSIVE DigitsVal(_, _)
DigitsVal (s, base) ==
  IF s = <<>> THEN 0
  ELSE DigitsVal (SubSeq (s, 1, Len(s) - 1), base) * base + DigitVal (s[Len(s)])

int (s, base) ==
  LET signed == s # <<>> /\ s[1] \in {"-", "+"}
      digits == IF signed THEN Tail (s) ELSE s
      ok     == digits # <<>> /\ \A i \in 1..Len(digits) : DigitVal (digits[i]) < base
  IN  IF ~ok THEN [err |-> "ValueError", val |-> 0]
      ELSE [err |-> "",
            val |-> IF signed /\ s[1] = "-" THEN 0 - DigitsVal (digits, base)
                    ELSE DigitsVal (digits, base)]

(***************************************************************************)
(* Python's float (text) on the texts of this model: the decimal integers. *)
(* (No row of the model spells inf, nan, a fraction or an exponent.)       *)
(***************************************************************************)
float (s) == int (s, 10)

(***************************************************************************)
(* struct.pack, little-endian, no padding ("<").  Every packer gives       *)
(* [err, buf]: err is "" and buf the bytes, or err names the exception.    *)
(* The integers of the model stay below 2^31, so the upper range check of  *)
(* 'I' (v >= 2^32) has no case here; the lower one (v < 0) has.            *)
(***************************************************************************)
\* n bytes of v >= 0, least significant first
RECURSIVE le_bytes(_, _)
le_bytes (n, v) == IF n = 0 THEN <<>> ELSE <<v % 256>> \o le_bytes (n - 1, v \div 256)

\* 'Ns': the bytes cut to N or filled with zero bytes up to N
pack_s (w, b) ==
  [err |-> "", buf |-> [i \in 1..w |-> IF i <= Len(b) THEN b[i] ELSE 0]]

\* 'I': struct.error unless 0 <= v < 2^32
pack_I (v) ==
  IF v < 0 THEN [err |-> "struct.error", buf |-> <<>>]
  ELSE [err |-> "", buf |-> le_bytes (4, v)]

\* 'B': struct.error unless 0 <= v < 256
pack_B (v) ==
  IF v < 0 \/ v >= 256 THEN [err |-> "struct.error", buf |-> <<>>]
  ELSE [err |-> "", buf |-> le_bytes (1, v)]

\* 'q' of a time stamp (never negative)
pack_q (v) == [err |-> "", buf |-> le_bytes (8, v)]

\* floor (log2 (v)) for v >= 1
RECURSIVE Log2(_)
Log2 (v) == IF v < 2 THEN 0 ELSE 1 + Log2 (v \div 2)

\* 'f': IEEE-754 binary32 of an integer of magnitude below 2^24 (exact):
\* sign bit, exponent + 127, the 23 bits below the leading one
pack_f (v) ==
  LET m    == IF v < 0 THEN 0 - v ELSE v
      e    == Log2 (m)
      bits == IF m = 0 THEN 0 ELSE (e + 127) * (2 ^ 23) + (m * (2 ^ (23 - e)) - (2 ^ 23))
      b    == le_bytes (4, bits)
  IN  [err |-> "", buf |-> IF v < 0 THEN [b EXCEPT ![4] = @ + 128] ELSE b]

\* the first exception among the results rs, "" if none
RECURSIVE first_err(_)
first_err (rs) ==
  IF rs = <<>> THEN ""
  ELSE IF Head (rs).err # "" THEN Head (rs).err ELSE first_err (Tail (rs))

\* struct.pack (format, ...): the packed fields one after the other
struct_pack (fields) ==
  IF first_err (fields) # "" THEN [err |-> first_err (fields), buf |-> <<>>]
  ELSE [err |-> "", buf |-> Flatten ([i \in 1..Len(fields) |-> fields[i].buf])]

(***************************************************************************)
(* The record functions.  data[k] of the source is column k, counted from  *)
(* 0; a missing column raises IndexError.  The statements run in the       *)
(* source's order, so the first failing one decides the exception.         *)
(***************************************************************************)
\* a missing column read as the empty text
col_bytes_or_empty (data, k) ==
  IF Len(data) <= k THEN [err |-> "", val |-> <<>>]
  ELSE [err |-> "", val |-> to_bytes (data[k + 1])]

col_bytes (data, k) ==
  IF Len(data) <= k THEN [err |-> "IndexError", val |-> <<>>]
  ELSE [err |-> "", val |-> to_bytes (data[k + 1])]

col_int (data, k, base) ==
  IF Len(data) <= k THEN [err |-> "IndexError", val |-> 0]
  ELSE int (data[k + 1], base)

col_float (data, k) ==
  IF Len(data) <= k THEN [err |-> "IndexError", val |-> 0]
  ELSE float (data[k + 1])

raise (e) == [err |-> e, buf |-> <<>>]

aircraft_rec_len == 6 + 10 + 10 + 40

\* the model field read from column 3
aircraft_record_model_col_3 (data) ==
  LET icao_addr == col_bytes (data, 0)
      regist    == col_bytes (data, 1)
      manuf     == col_bytes (data, 2)
      model     == col_bytes (data, 3)
      e         == first_err (<<icao_addr, regist, manuf, model>>)
  IN  IF e # "" THEN raise (e)
      ELSE struct_pack (<<pack_s (6, icao_addr.val), pack_s (10, regist.val),
                          pack_s (10, manuf.val), pack_s (40, model.val)>>)

aircraft_record (data) ==
  LET icao_addr == col_bytes (data, 0)
      regist    == col_bytes (data, 1)
      manuf     == col_bytes (data, 2)
      model     == col_bytes (data, 5)
      e         == first_err (<<icao_addr, regist, manuf, model>>)
  IN  IF e # "" THEN raise (e)
      ELSE struct_pack (<<pack_s (6, icao_addr.val), pack_s (10, regist.val),
                          pack_s (10, manuf.val), pack_s (40, model.val)>>)

airport_rec_len == 4 + 3 + 40 + 20 + 2 + 4 + 4

airport_record (data) ==
  LET icao_name == col_bytes (data, 2)
      iata_name == col_bytes (data, 3)
      full_name == col_bytes (data, 1)
      location  == col_bytes (data, 4)
      country   == col_bytes (data, 5)
      latitude  == col_float (data, 6)
      longitude == col_float (data, 7)
      e         == first_err (<<icao_name, iata_name, full_name, location, country,
                                latitude, longitude>>)
  IN  IF e # "" THEN raise (e)
      ELSE struct_pack (<<pack_s (4, icao_name.val), pack_s (3, iata_name.val),
                          pack_s (40, full_name.val), pack_s (20, location.val),
                          pack_s (2, country.val), pack_f (latitude.val),
                          pack_f (longitude.val)>>)

routes_rec_len == 8 + 20

routes_record (data) ==
  LET call_sign == col_bytes (data, 0)
      airports  == col_bytes (data, 4)
      e         == first_err (<<call_sign, airports>>)
  IN  IF e # "" THEN raise (e)
      ELSE struct_pack (<<pack_s (8, call_sign.val), pack_s (20, airports.val)>>)

blocks_rec_len == 4 + 4 + 4 + 4 + 4 + 1 + 2

blocks_record (data) ==
  LET start        == col_int (data, 0, 16)
      finish       == col_int (data, 1, 16)
      count        == col_int (data, 2, 10)
      bitmask      == col_int (data, 3, 16)
      sign_bitmask == col_int (data, 4, 16)
      is_military  == col_int (data, 5, 10)
      country_ISO  == col_bytes (data, 6)
      e            == first_err (<<start, finish, count, bitmask, sign_bitmask,
                                   is_military, country_ISO>>)
  IN  IF e # "" THEN raise (e)
      ELSE struct_pack (<<pack_I (start.val), pack_I (finish.val), pack_I (count.val),
                          pack_I (bitmask.val), pack_I (sign_bitmask.val),
                          pack_B (is_military.val), pack_s (2, country_ISO.val)>>)

(***************************************************************************)
(* The four handlers of main: name -> (rec_len, rec_func).                 *)
(***************************************************************************)
Names == {"aircraft", "airports", "routes", "code-blocks"}

rec_len_of (name) ==
  CASE name = "aircraft"    -> aircraft_rec_len
    [] name = "airports"    -> airport_rec_len
    [] name = "routes"      -> routes_rec_len
    [] name = "code-blocks" -> blocks_rec_len

rec_func (name, d) ==
  CASE name = "aircraft"    -> aircraft_record (d)
    [] name = "airports"    -> airport_record (d)
    [] name = "routes"      -> routes_record (d)
    [] name = "code-blocks" -> blocks_record (d)

(***************************************************************************)
(* The header of a table and the file operations.                          *)
(***************************************************************************)
bin_marker == <<"B", "I", "N", "-", "d", "u", "m", "p", "1", "0", "9", "0">>

\* struct.calcsize (bin_header) of "<12sqII"
calcsize_bin_header == 12 + 8 + 4 + 4

\* a header that counts the CSV header row as a record
pack_bin_header_counts_header (t, n, len) ==
  struct_pack (<<pack_s (12, to_bytes (bin_marker)), pack_q (t), pack_I (n + 1), pack_I (len)>>)

\* struct.pack (bin_header, to_bytes (bin_marker), int (time.time()), rows, rec_len)
pack_bin_header (t, n, len) ==
  struct_pack (<<pack_s (12, to_bytes (bin_marker)), pack_q (t), pack_I (n), pack_I (len)>>)

\* f.write (b) at offset pos of a file: the gap past the old end reads as zero
\* bytes; writing nothing leaves the file as it is
write (file, pos, b) ==
  IF b = <<>> THEN file
  ELSE [i \in 1..(IF Len(file) > pos + Len(b) THEN Len(file) ELSE pos + Len(b)) |->
          IF i > pos /\ i <= pos + Len(b) THEN b[i - pos]
          ELSE IF i <= Len(file) THEN file[i] ELSE 0]

(***************************************************************************)
(* Bitwise and of two naturals (C's & on uint32_t).                        *)
(***************************************************************************)
RECURSIVE BitAnd(_, _)
BitAnd (a, b) ==
  IF a = 0 \/ b = 0 THEN 0
  ELSE (a % 2) * (b % 2) + 2 * BitAnd (a \div 2, b \div 2)

(***************************************************************************)
(* State.                                                                  *)
(***************************************************************************)
VARIABLES
  name,               \* the handler: its table is result_dir/name.bin
  csv_result,         \* the rows csv.reader yields for self.csv_result
  had_table,          \* whether self.bin_result held a table before the run
  bin_exists,         \* whether the file self.bin_result exists
  bin_file,           \* the bytes of self.bin_result
  f_pos,              \* the file position of f_bin
  pc,                 \* where the run is: in create_bin_file, behind gen_c_file, ...
  rows,               \* the loop variable 'rows'; -1 while it is unbound
  data,               \* self.data
  rec_num,            \* self.rec_num
  exc,                \* the exception that ended the run, "" if none
  reader,             \* what a reader of the table saw last
  sorted_blocks,      \* the array emitted by gen_c_file
  num_sorted_blocks,  \* the num_sorted_blocks emitted by gen_c_file
  addr,               \* the address last classified
  found,              \* aircraft_find_block's result: index from 1, 0 is NULL
  \* the fragment merger
  fs,                 \* the files and directories below zip_dir
  _dict,              \* self._dict: the fragments in the order they were added
  csv_exists,         \* whether the file self.csv_result exists
  csv_file,           \* the characters of self.csv_result
  mpc,                \* where the merge is
  run,                \* the number of the run over the same fragments
  first_run,          \* what the first run left: the merged dataset and the table
  frag_i,             \* the loop variable 'i' of create_csv_file
  \* main
  opt,                \* the options: --list, --test, --gen-c
  m_in,               \* per handler: its directory or file, the rows of its fragments
  m_step,             \* the statement of main that runs next
  m_csv,              \* per handler: the rows of its merged dataset, once written
  m_bin,              \* per handler: its table "none", "opened" or "written"
  m_rec_num,          \* per handler: self.rec_num
  m_c_test,           \* per handler: the checker source create_c_test wrote
  m_ran,              \* per handler: what build_and_run returned
  m_rc,               \* rc
  m_exit,             \* "running", or the exit status of the process
  m_out,              \* the last message of main
  \* the generated checker
  c_name,             \* the x_LOOKUP the checker was compiled with, as the handler's name
  c_exists,           \* whether bin_file can be opened
  c_file,             \* the bytes of bin_file
  c_pc,               \* where the checker is
  c_hdr,              \* the bytes of 'hdr'
  c_fpos,             \* the position of f
  dsize,              \* 'dsize' behind the size check: the bytes allocated
  num_rec,            \* the record counter
  num_err,            \* the number of sort errors
  num_mil,            \* the number of records with is_military
  prev_rec,           \* the bytes *prev_rec points at, <<>> while it is NULL
  c_recs,             \* the records decoded so far
  c_exit,             \* "running", or how the checker ended: "0", "1", "crash"
  \* concurrent calls of aircraft_find_block, per calling thread
  t_pc,               \* "idle", "scan" (in the loop) or "returned"
  t_addr,             \* the argument addr
  t_i,                \* the local i
  t_b,                \* the local b, as an index into sorted_blocks from 0
  t_ret               \* the value returned: index from 1, 0 is NULL

merge_vars   == <<fs, _dict, csv_exists, csv_file, mpc, run, first_run, frag_i>>
main_vars    == <<opt, m_in, m_step, m_csv, m_bin, m_rec_num, m_c_test, m_ran, m_rc, m_exit,
                  m_out>>
encode_vars  == <<name, csv_result, had_table, bin_exists, bin_file, f_pos, pc, rows, data,
                  rec_num, exc, reader, sorted_blocks, num_sorted_blocks, addr, found>>
checker_vars == <<c_name, c_exists, c_file, c_pc, c_hdr, c_fpos, dsize, num_rec, num_err,
                  num_mil, prev_rec, c_recs, c_exit>>

scan_vars    == <<t_pc, t_addr, t_i, t_b, t_ret>>

vars == <<name, csv_result, had_table, bin_exists, bin_file, f_pos, pc, rows, data, rec_num,
          exc, reader, sorted_blocks, num_sorted_blocks, addr, found, merge_vars, main_vars,
          checker_vars, scan_vars>>

handler_vars == <<name, csv_result, had_table>>
block_vars   == <<sorted_blocks, num_sorted_blocks, addr, found>>

(***************************************************************************)
(* Inputs: rows of the merged CSV files.                                   *)
(***************************************************************************)
E == <<>>

HeaderRow == <<<<"I", "C", "A", "0">>, <<"N", "a", "m">>>>

AircraftRows == {
  \* fits every field
  <<<<"4", "0", "0", "F">>, <<"G", "-", "A", "B">>, <<"B", "A", "E">>, E, E, <<"1", "4", "6">>>>,
  \* icao_addr of 7 bytes (5 characters and a two-byte one), a 7th column
  <<<<"4", "C", "A", "9", "D", "e'">>, <<"e'">>, E, E, E, <<"A", "3", "2", "0">>, <<"U", "S">>>>,
  \* icao_addr of 7 characters
  <<<<"A", "B", "C", "D", "E", "F", "0">>, E, E, E, E, E>>,
  \* 5 columns
  <<<<"4", "0", "0", "F">>, E, E, E, E>>,
  \* an empty line
  <<>> }

AirportRows == {
  <<<<"1">>, <<"N", "a", "m">>, <<"E", "N", "G", "m">>, <<"A", "B", "C">>, <<"U", "m">>,
    <<"N", "A">>, <<"6", "0">>, <<"-", "1", "1">>>>,
  \* icao of 5, iata of 4, country of 3 characters, a 9th column
  <<<<"2">>, E, <<"E", "N", "G", "m", "2">>, <<"A", "B", "C", "D">>, E,
    <<"U", "S", "A">>, <<"0">>, <<"+", "1">>, <<"9">>>>,
  \* latitude is no number
  <<<<"3">>, E, <<"E", "N">>, E, E, <<"N", "A">>, <<"G">>, <<"1">>>>,
  \* 7 columns
  <<<<"4">>, E, <<"E", "N">>, E, E, <<"N", "A">>, <<"1">>>> }

RoutesRows == {
  <<<<"S", "A", "S", "1">>, E, E, E, <<"E", "N", "G", "m", "-", "E", "N", "B", "A">>>>,
  \* call_sign of 9 characters
  <<<<"S", "A", "S", "1", "2", "3", "4", "5", "6">>, E, E, E, <<"A", "-", "B">>>>,
  \* 6 columns
  <<<<"B", "A", "B", "1">>, E, E, E, <<"A", "-", "B">>, <<"9">>>>,
  \* 4 columns
  <<<<"S", "A", "S", "2">>, E, E, E>> }

BlockRow (bitmask, sign_bitmask, mil, iso) ==
  <<bitmask, <<"7", "F", "F", "F", "F", "F">>, <<"1">>, bitmask, sign_bitmask, mil, iso>>

BlocksRows == {
  BlockRow (<<"4", "0", "0", "0", "0", "0">>, <<"F", "F", "C", "0", "0", "0">>, <<"0">>, <<"U", "S">>),
  \* country of 3 characters, an 8th column
  BlockRow (<<"f", "0">>, <<"f", "f">>, <<"1">>, <<"U", "S", "A">>) \o <<<<"9">>>>,
  \* sign_bitmask is no hex number
  BlockRow (<<"0">>, <<"G">>, <<"0">>, <<"Z", "Z">>),
  \* is_military is no decimal number
  BlockRow (<<"0">>, <<"0">>, <<"F">>, <<"Z", "Z">>),
  \* start and bitmask are negative
  BlockRow (<<"-", "1">>, <<"0">>, <<"0">>, <<"Z", "Z">>),
  \* 6 columns
  <<<<"0">>, <<"0">>, <<"1">>, <<"0">>, <<"0">>, <<"0">>>> }

RowPool (n) ==
  CASE n = "aircraft"    -> AircraftRows
    [] n = "airports"    -> AirportRows
    [] n = "routes"      -> RoutesRows
    [] n = "code-blocks" -> BlocksRows

\* the sequences of at most n members of S
SeqsUpTo (S, n) == UNION {[1..k -> S] : k \in 0..n}

\* the merged CSV files: no line at all, or the header row and data rows
\* and the same with no header row before the data rows
CsvFiles (n) ==
  {<<>>} \cup {<<HeaderRow>> \o ds : ds \in SeqsUpTo (RowPool (n), MaxRows)}
         \cup {ds \in SeqsUpTo (RowPool (n), MaxRows) : ds # <<>>}

\* int (time.time()) of the runs
Times == {1700000000, 1700000001}

\* a table an earlier run left: a header and no record
OldTable (n) == pack_bin_header (1600000000, 0, rec_len_of (n)).buf

(***************************************************************************)
(* The allocation-block lists of SpecBlocks: every pairing of a bitmask    *)
(* and a sign_bitmask text, a row that does not parse, and the two         *)
(* scenarios of the specification.                                         *)
(***************************************************************************)
BitmaskTexts == {<<"0">>, <<"1">>, <<"8">>}
SignTexts    == {<<"0">>, <<"7">>, <<"8">>, <<"f">>, <<"0", "F">>}

BlockPool ==
  {BlockRow (b, s, <<"0">>, <<"Z", "Z">>) : b \in BitmaskTexts, s \in SignTexts}
    \cup {BlockRow (<<"0">>, <<"G">>, <<"0">>, <<"Z", "Z">>)}

block1 == <<<<"4", "0", "0", "0", "0", "0">>, <<"4", "3", "F", "F", "F", "F">>, <<"1">>,
            <<"4", "0", "0", "0", "0", "0">>, <<"F", "F", "C", "0", "0", "0">>, <<"0">>, <<"U", "S">>>>
block2 == <<<<"0", "0", "0", "0", "0", "0">>, <<"7", "F", "F", "F", "F", "F">>, <<"1">>,
            <<"0", "0", "0", "0", "0", "0">>, <<"0", "0", "0", "0", "0", "0">>, <<"0">>, <<"Z", "Z">>>>
block3 == <<<<"4", "3", "F", "0", "0", "0">>, <<"4", "3", "F", "F", "F", "F">>, <<"1">>,
            <<"4", "3", "F", "0", "0", "0">>, <<"F", "F", "F", "F", "F", "0">>, <<"1">>, <<"U", "S">>>>
blockA == BlockRow (<<"0", "0", "0", "0", "0", "0">>, <<"0", "0", "0", "0", "0", "0">>, <<"0">>, <<"Z", "Z">>)
blockB == BlockRow (<<"A", "B", "C", "D", "0", "0">>, <<"F", "F", "F", "F", "0", "0">>, <<"0">>, <<"U", "S">>)

\* the orderings of the members of S
Orderings (S) ==
  {q \in [1..Cardinality (S) -> S] : \A x \in S : \E i \in DOMAIN q : q[i] = x}

BlockLists ==
  SeqsUpTo (BlockPool, MaxBlocks)
    \cup Orderings ({block1, block2, block3}) \cup Orderings ({blockA, blockB})

\* the addresses that are classified
Addresses ==
  0..MaxAddr \cup {DigitsVal (<<"4", "3", "F", "0", "0", "5">>, 16),
                   DigitsVal (<<"A", "B", "C", "D", "1", "2">>, 16)}

(***************************************************************************)
(* csv_handler.create_bin_file, statement by statement.                    *)
(*   idle -> opened -> loop -> seek0 -> patched -> done, or -> failed;     *)
(*   then done -> generated (gen_c_file) -> classified (the classifier).   *)
(***************************************************************************)
\* open (fname, "r+b"): the file keeps its bytes
open_keeps_bytes (file) == file

\* open (fname, "w+b"): the file is created or cut to no bytes
open_w (file) == <<>>

\* f_bin = open_file (self.bin_result, "w+b")    (f_csv is open: the file exists)
OpenBin ==
  /\ pc = "idle"
  /\ bin_exists' = TRUE
  /\ bin_file' = open_w (bin_file)
  /\ f_pos' = 0
  /\ rows' = -1
  /\ pc' = "opened"
  /\ UNCHANGED <<handler_vars, data, rec_num, exc, reader, block_vars, merge_vars, main_vars, scan_vars, checker_vars>>

\* a provisional header of no record written where the header is reserved
Reserve_writes_header ==
  /\ pc = "opened"
  /\ \E t \in Times :
       bin_file' = write (bin_file, 0, pack_bin_header (t, 0, rec_len_of (name)).buf)
  /\ f_pos' = calcsize_bin_header
  /\ pc' = "loop"
  /\ UNCHANGED <<handler_vars, bin_exists, rows, data, rec_num, exc, reader, block_vars, merge_vars, main_vars, scan_vars, checker_vars>>

\* f_bin.seek (struct.calcsize (bin_header), 0)
Reserve ==
  /\ pc = "opened"
  /\ f_pos' = calcsize_bin_header
  /\ pc' = "loop"
  /\ UNCHANGED <<handler_vars, bin_exists, bin_file, rows, data, rec_num, exc, reader,
                 block_vars, merge_vars, main_vars, scan_vars, checker_vars>>

\* the row enumerate (data) yields next, counted from 0, is csv_result[rows + 2]
HasNextRow == rows + 1 < Len (csv_result)
NextRow    == csv_result[rows + 2]

\* row 0 ignored only when it is the header row, encoded when it is not
SkipHeaderRow_by_content ==
  /\ pc = "loop"
  /\ HasNextRow
  /\ rows + 1 = 0
  /\ rows' = 0
  /\ LET r == rec_func (name, NextRow)
     IN  IF NextRow = HeaderRow \/ r.err # ""
         THEN UNCHANGED <<bin_file, f_pos, data>>
         ELSE /\ bin_file' = write (bin_file, f_pos, r.buf)
              /\ f_pos' = f_pos + Len (r.buf)
              /\ data' = Append (data, NextRow)
  /\ UNCHANGED <<handler_vars, bin_exists, pc, rec_num, exc, reader, block_vars, merge_vars,
                 main_vars, scan_vars, checker_vars>>

\* rows == 0: the CSV header row is ignored
SkipHeaderRow ==
  /\ pc = "loop"
  /\ HasNextRow
  /\ rows + 1 = 0
  /\ rows' = 0
  /\ UNCHANGED <<handler_vars, bin_exists, bin_file, f_pos, pc, data, rec_num, exc,
                 reader, block_vars, merge_vars, main_vars, scan_vars, checker_vars>>

\* rows > 0: f_bin.write (self.rec_func (d)); self.data.append (d)
WriteRecord ==
  /\ pc = "loop"
  /\ HasNextRow
  /\ rows + 1 > 0
  /\ LET r == rec_func (name, NextRow)
     IN  /\ r.err = ""
         /\ bin_file' = write (bin_file, f_pos, r.buf)
         /\ f_pos' = f_pos + Len (r.buf)
         /\ data' = Append (data, NextRow)
  /\ rows' = rows + 1
  /\ UNCHANGED <<handler_vars, bin_exists, pc, rec_num, exc, reader, block_vars, merge_vars, main_vars, scan_vars, checker_vars>>

\* the exception caught and the row skipped
RecordFails_skips_row ==
  /\ pc = "loop"
  /\ HasNextRow
  /\ rows + 1 > 0
  /\ rec_func (name, NextRow).err # ""
  /\ rows' = rows + 1
  /\ UNCHANGED <<handler_vars, bin_exists, bin_file, f_pos, pc, data, rec_num, exc,
                 reader, block_vars, merge_vars, main_vars, scan_vars, checker_vars>>

\* rows > 0 and self.rec_func (d) raises: nothing catches it, the run ends
RecordFails ==
  /\ pc = "loop"
  /\ HasNextRow
  /\ rows + 1 > 0
  /\ rec_func (name, NextRow).err # ""
  /\ exc' = rec_func (name, NextRow).err
  /\ rows' = rows + 1
  /\ pc' = "failed"
  /\ UNCHANGED <<handler_vars, bin_exists, bin_file, f_pos, data, rec_num, reader,
                 block_vars, merge_vars, main_vars, scan_vars, checker_vars>>

\* the loop is over: f_bin.seek (0, 0)
SeekStart ==
  /\ pc = "loop"
  /\ ~HasNextRow
  /\ f_pos' = 0
  /\ pc' = "seek0"
  /\ UNCHANGED <<handler_vars, bin_exists, bin_file, rows, data, rec_num, exc, reader,
                 block_vars, merge_vars, main_vars, scan_vars, checker_vars>>

\* hdr = struct.pack (...); f_bin.write (hdr)
WriteHeader ==
  /\ pc = "seek0"
  /\ rows # -1
  /\ \E t \in Times :
       LET hdr == pack_bin_header (t, rows, rec_len_of (name)).buf
       IN  /\ bin_file' = write (bin_file, f_pos, hdr)
           /\ f_pos' = f_pos + Len (hdr)
  /\ pc' = "patched"
  /\ UNCHANGED <<handler_vars, bin_exists, rows, data, rec_num, exc, reader, block_vars, merge_vars, main_vars, scan_vars, checker_vars>>

\* the CSV file had no line: 'rows' was never bound and struct.pack (.., rows, ..)
\* raises UnboundLocalError
HeaderFails ==
  /\ pc = "seek0"
  /\ rows = -1
  /\ exc' = "UnboundLocalError"
  /\ pc' = "failed"
  /\ UNCHANGED <<handler_vars, bin_exists, bin_file, f_pos, rows, data, rec_num, reader,
                 block_vars, merge_vars, main_vars, scan_vars, checker_vars>>

\* f_bin.close(); f_csv.close(); self.rec_num = rows
Close ==
  /\ pc = "patched"
  /\ rec_num' = rows
  /\ pc' = "done"
  /\ UNCHANGED <<handler_vars, bin_exists, bin_file, f_pos, rows, data, exc, reader,
                 block_vars, merge_vars, main_vars, scan_vars, checker_vars>>

(***************************************************************************)
(* A reader of the table: it takes the file as a table when the magic is   *)
(* there and the size is the one the header declares.                      *)
(***************************************************************************)
RECURSIVE le_value(_)
le_value (b) == IF b = <<>> THEN 0 ELSE Head (b) + 256 * le_value (Tail (b))

HasMagic (file) ==
  /\ Len (file) >= 12
  /\ SubSeq (file, 1, 12) = to_bytes (bin_marker)

hdr_rec_num (file) == le_value (SubSeq (file, 21, 24))
hdr_rec_len (file) == le_value (SubSeq (file, 25, 28))

ReaderAccepts (exists, file) ==
  /\ exists
  /\ Len (file) >= calcsize_bin_header
  /\ HasMagic (file)
  /\ Len (file) = calcsize_bin_header + hdr_rec_num (file) * hdr_rec_len (file)

Read ==
  /\ reader' = IF ReaderAccepts (bin_exists, bin_file) THEN "accepted" ELSE "rejected"
  /\ UNCHANGED <<handler_vars, bin_exists, bin_file, f_pos, pc, rows, data, rec_num, exc,
                 block_vars, merge_vars, main_vars, scan_vars, checker_vars>>

(***************************************************************************)
(* gen_c_file: the rows of blocks.data, sorted, as a C array.              *)
(***************************************************************************)
\* Python's a < b on str: by code point, a proper prefix is smaller
RECURSIVE str_lt(_, _)
str_lt (a, b) ==
  IF b = <<>> THEN FALSE
  ELSE IF a = <<>> THEN TRUE
  ELSE IF CodePoint[Head (a)] # CodePoint[Head (b)]
       THEN CodePoint[Head (a)] < CodePoint[Head (b)]
  ELSE str_lt (Tail (a), Tail (b))

\* key = lambda field: field[4]
sort_key (d) == d[5]

\* x put into an ascending list: the sort without reverse = True
RECURSIVE insert_asc(_, _)
insert_asc (s, x) ==
  IF s = <<>> THEN <<x>>
  ELSE IF str_lt (sort_key (x), sort_key (Head (s))) THEN <<x>> \o s
  ELSE <<Head (s)>> \o insert_asc (Tail (s), x)

\* x put into the sorted list s: behind every member whose key is not smaller
RECURSIVE insert_desc(_, _)
insert_desc (s, x) ==
  IF s = <<>> THEN <<x>>
  ELSE IF str_lt (sort_key (Head (s)), sort_key (x)) THEN <<x>> \o s
  ELSE <<Head (s)>> \o insert_desc (Tail (s), x)

\* the list as it is, not sorted
sorted_reverse_left_out (l) == l

\* sorted (l, reverse = True, key = ...): descending, equal keys in their old order
RECURSIVE sorted_reverse(_)
sorted_reverse (l) ==
  IF l = <<>> THEN <<>>
  ELSE insert_desc (sorted_reverse (SubSeq (l, 1, Len (l) - 1)), l[Len (l)])

HexDigits == <<"0", "1", "2", "3", "4", "5", "6", "7", "8", "9", "A", "B", "C", "D", "E", "F">>

\* the digits of v >= 0 in the base, at least w of them ("%06X", "%u", "%d")
RECURSIVE format_int(_, _, _)
format_int (v, base, w) ==
  IF v < base /\ w <= 1 THEN <<HexDigits[v + 1]>>
  ELSE format_int (v \div base, base, w - 1) \o <<HexDigits[(v % base) + 1]>>

\* the value the C compiler reads from the literal
c_literal (digits, base) == DigitsVal (digits, base)

\* one line of the array: "{ 0x%06X, 0x%06X, %7u, 0x%06X, 0x%06X, %d, \"%.2s\" },"
c_entry (d) ==
  [start        |-> c_literal (format_int (int (d[1], 16).val, 16, 6), 16),
   finish       |-> c_literal (format_int (int (d[2], 16).val, 16, 6), 16),
   count        |-> c_literal (format_int (int (d[3], 10).val, 10, 1), 10),
   bitmask      |-> c_literal (format_int (int (d[4], 16).val, 16, 6), 16),
   sign_bitmask |-> c_literal (format_int (int (d[5], 16).val, 16, 6), 16),
   is_military  |-> c_literal (format_int (int (d[6], 10).val, 10, 1), 10),
   country_ISO  |-> SubSeq (d[7], 1, IF Len (d[7]) < 2 THEN Len (d[7]) ELSE 2)]

gen_c_array (blocks_data) ==
  LET s == sorted_reverse (blocks_data) IN [i \in 1..Len (s) |-> c_entry (s[i])]

\* main reaches gen_c_file (blocks) behind blocks.create_bin_file() and
\* blocks.create_c_test(), which ends the run when rec_num is 0
GenCFile ==
  /\ pc = "done"
  /\ name = "code-blocks"
  /\ rec_num # 0
  /\ sorted_blocks' = gen_c_array (data)
  /\ num_sorted_blocks' = rec_num
  /\ pc' = "generated"
  /\ UNCHANGED <<handler_vars, bin_exists, bin_file, f_pos, rows, data, rec_num, exc,
                 reader, addr, found, merge_vars, main_vars, scan_vars, checker_vars>>

(***************************************************************************)
(* aircraft_find_block of the generated C file.  The result is the index   *)
(* of the block in sorted_blocks, from 1; 0 stands for NULL.               *)
(***************************************************************************)
RECURSIVE find_from(_, _, _, _)
find_from (i, a, blocks, num) ==
  IF i >= num THEN 0
  ELSE IF BitAnd (a, blocks[i + 1].sign_bitmask) = blocks[i + 1].bitmask THEN i + 1
  ELSE find_from (i + 1, a, blocks, num)

\* a scan that starts behind the first block
aircraft_find_block_from_1 (a, blocks, num) == find_from (1, a, blocks, num)

\* the last block that matches instead of the first
RECURSIVE find_last(_, _, _, _)
find_last (i, a, blocks, num) ==
  IF i = 0 THEN 0
  ELSE IF BitAnd (a, blocks[i].sign_bitmask) = blocks[i].bitmask THEN i
  ELSE find_last (i - 1, a, blocks, num)

\* the scan from the end of the array
aircraft_find_block_last (a, blocks, num) == find_last (num, a, blocks, num)

\* a test that compares the bits of bitmask under sign_bitmask only
RECURSIVE find_masked(_, _, _, _)
find_masked (i, a, blocks, num) ==
  IF i >= num THEN 0
  ELSE IF BitAnd (a, blocks[i + 1].sign_bitmask)
            = BitAnd (blocks[i + 1].bitmask, blocks[i + 1].sign_bitmask) THEN i + 1
  ELSE find_masked (i + 1, a, blocks, num)

aircraft_find_block_masked (a, blocks, num) == find_masked (0, a, blocks, num)

aircraft_find_block (a, blocks, num) == find_from (0, a, blocks, num)

FindBlock (a) ==
  /\ pc \in {"generated", "classified"}
  /\ addr' = a
  /\ found' = aircraft_find_block (a, sorted_blocks, num_sorted_blocks)
  /\ pc' = "classified"
  /\ UNCHANGED <<handler_vars, bin_exists, bin_file, f_pos, rows, data, rec_num, exc,
                 reader, sorted_blocks, num_sorted_blocks, merge_vars, main_vars, scan_vars,
                 checker_vars>>

(***************************************************************************)
(* aircraft_find_block, statement by statement, called from several        *)
(* threads.  addr, b and i are locals of a call; sorted_blocks and         *)
(* num_sorted_blocks are the statics of the generated file.                *)
(***************************************************************************)
Threads == {1, 2}

\* one static i and b for all calls
local_shared (t) == CHOOSE x \in Threads : \A y \in Threads : x <= y

\* the locals of the call of thread t
local (t) == t

\* aircraft_find_block (a) is entered: b = sorted_blocks + 0, i = 0
ScanCall (t, a) ==
  /\ pc \in {"generated", "classified"}
  /\ t_pc[t] # "scan"
  /\ t_pc' = [t_pc EXCEPT ![t] = "scan"]
  /\ t_addr' = [t_addr EXCEPT ![t] = a]
  /\ t_i' = [t_i EXCEPT ![local (t)] = 0]
  /\ t_b' = [t_b EXCEPT ![local (t)] = 0]
  /\ UNCHANGED <<t_ret, encode_vars, merge_vars, main_vars, checker_vars>>

\* i < num_sorted_blocks
InLoop (t) == t_pc[t] = "scan" /\ t_i[local (t)] < num_sorted_blocks

\* (addr & b->sign_bitmask) == b->bitmask
ScanMatches (t) ==
  BitAnd (t_addr[t], sorted_blocks[t_b[local (t)] + 1].sign_bitmask)
    = sorted_blocks[t_b[local (t)] + 1].bitmask

\* no match: i++, b++
ScanNext (t) ==
  /\ InLoop (t)
  /\ ~ScanMatches (t)
  /\ t_i' = [t_i EXCEPT ![local (t)] = @ + 1]
  /\ t_b' = [t_b EXCEPT ![local (t)] = @ + 1]
  /\ UNCHANGED <<t_pc, t_addr, t_ret, encode_vars, merge_vars, main_vars, checker_vars>>

\* a match: return (b)
ScanFound (t) ==
  /\ InLoop (t)
  /\ ScanMatches (t)
  /\ t_ret' = [t_ret EXCEPT ![t] = t_b[local (t)] + 1]
  /\ t_pc' = [t_pc EXCEPT ![t] = "returned"]
  /\ UNCHANGED <<t_addr, t_i, t_b, encode_vars, merge_vars, main_vars, checker_vars>>

\* the loop is over: return (NULL)
ScanNull (t) ==
  /\ t_pc[t] = "scan"
  /\ ~(t_i[local (t)] < num_sorted_blocks)
  /\ t_ret' = [t_ret EXCEPT ![t] = 0]
  /\ t_pc' = [t_pc EXCEPT ![t] = "returned"]
  /\ UNCHANGED <<t_addr, t_i, t_b, encode_vars, merge_vars, main_vars, checker_vars>>

(***************************************************************************)
(* The fragment merger: walk_csv_tree, read_csv_file and                   *)
(* csv_handler.create_csv_file.  The files below zip_dir are a set of      *)
(* entries [fqfn, kind, content]: the full name as a text, "dir", "file"   *)
(* or "other", and for a file its content as a text (a valid UTF-8 file,   *)
(* so that a line of bytes begins with EF BB BF exactly when the line of   *)
(* characters begins with U+FEFF).                                         *)
(***************************************************************************)
zip_dir == <<"z">>

NameText (n) ==
  CASE n = "aircraft"    -> <<"a", "i", "r", "c", "r", "a", "f", "t">>
    [] n = "airports"    -> <<"a", "i", "r", "p", "o", "r", "t", "s">>
    [] n = "routes"      -> <<"r", "o", "u", "t", "e", "s">>
    [] n = "code-blocks" -> <<"c", "o", "d", "e", "-", "b", "l", "o", "c", "k", "s">>

\* self.csv_dir = zip_dir + "/" + name
csv_dir (n) == zip_dir \o <<"/">> \o NameText (n)

\* aircraft.create_csv_file (True), airports.create_csv_file (True),
\* routes.create_csv_file (False)
is_bin_file (n) == n \in {"aircraft", "airports"}

\* os.path.join (top, f).replace ("\\", "/")
join (top, f) == top \o <<"/">> \o f

IsPrefix (p, t) == Len (p) <= Len (t) /\ SubSeq (t, 1, Len (p)) = p
IsSuffix (p, t) == Len (p) <= Len (t) /\ SubSeq (t, Len (t) - Len (p) + 1, Len (t)) = p

\* os.stat (fqfn): the entry of that name
stat (files, fqfn) == CHOOSE e \in files : e.fqfn = fqfn

IsDir (files, top) == \E e \in files : e.fqfn = top /\ e.kind = "dir"

\* os.listdir (top): the names of the entries right below top
listdir (files, top) ==
  {SubSeq (e.fqfn, Len (top) + 2, Len (e.fqfn)) :
     e \in {x \in files : /\ IsPrefix (top \o <<"/">>, x.fqfn)
                          /\ \A k \in (Len (top) + 2)..Len (x.fqfn) : x.fqfn[k] # "/"}}

\* the names in descending order
RECURSIVE sorted_descending(_)
sorted_descending (S) ==
  IF S = {} THEN <<>>
  ELSE LET m == CHOOSE x \in S : \A y \in S \ {x} : str_lt (y, x)
       IN  <<m>> \o sorted_descending (S \ {m})

\* sorted (names): ascending by code points
RECURSIVE sorted(_)
sorted (S) ==
  IF S = {} THEN <<>>
  ELSE LET m == CHOOSE x \in S : \A y \in S \ {x} : str_lt (x, y)
       IN  <<m>> \o sorted (S \ {m})

\* fnmatch.fnmatch (fqfn, "*.csv")
fnmatch_csv (fqfn) == IsSuffix (<<".", "c", "s", "v">>, fqfn)

\* walk_csv_tree (top, _dict): the entries added to _dict, in order
RECURSIVE walk_csv_tree(_, _, _), walk_names(_, _, _, _)
walk_names (files, top, names, d) ==
  IF names = <<>> THEN d
  ELSE LET fqfn == join (top, Head (names))
           st   == stat (files, fqfn)
           d1   == IF st.kind = "dir" THEN walk_csv_tree (files, fqfn, d)
                   ELSE IF fnmatch_csv (fqfn) /\ st.kind = "file"
                        THEN d \o <<[fname |-> fqfn, header |-> <<"?">>, read |-> FALSE,
                                     fsize |-> Len (to_bytes (st.content))]>>
                   ELSE d
       IN  walk_names (files, top, Tail (names), d1)

walk_csv_tree (files, top, d) == walk_names (files, top, sorted (listdir (files, top)), d)

\* f.readlines(): the lines, each with its line end when it has one
RECURSIVE readlines(_)
readlines (t) ==
  IF t = <<>> THEN <<>>
  ELSE LET ends == {k \in 1..Len (t) : t[k] = "\n"}
           k    == IF ends = {} THEN Len (t) ELSE CHOOSE e \in ends : \A o \in ends : e <= o
       IN  <<SubSeq (t, 1, k)>> \o readlines (SubSeq (t, k + 1, Len (t)))

\* the decoder of "utf-8-sig": a byte order mark at the start of the file is dropped
decode_utf_8_sig (t) == IF t # <<>> /\ t[1] = "BOM" THEN Tail (t) ELSE t

\* the header line kept with its byte order mark
header_of_keeps_BOM (l, bin) == l

\* line 0 as read_csv_file saves it in _dict [fname]["header"]: a line of bytes
\* loses a leading EF BB BF; a line of characters (a str) never equals 0xEF
header_of (l, bin) == IF bin /\ l[1] = "BOM" THEN Tail (l) ELSE l

\* read_csv_file (fname, _dict, is_bin_file): the header it saves ("?" stays
\* when the file has no line) and the lines it returns
read_csv_file (files, fname, bin) ==
  LET content == stat (files, fname).content
      all     == readlines (IF bin THEN content ELSE decode_utf_8_sig (content))
  IN  [read   |-> all # <<>>,
       header |-> IF all = <<>> THEN <<"?">> ELSE header_of (all[1], bin),
       lines  |-> IF all = <<>> THEN <<>> ELSE Tail (all)]

\* csv.reader (f_csv, delimiter = ","): one row per line, the line end dropped,
\* the fields cut at the commas; an empty line is a row of no field.  (The
\* texts of the model have no quote character.)
RECURSIVE split(_)
split (l) ==
  LET commas == {k \in 1..Len (l) : l[k] = ","}
      k      == CHOOSE e \in commas : \A o \in commas : e <= o
  IN  IF commas = {} THEN <<l>>
      ELSE <<SubSeq (l, 1, k - 1)>> \o split (SubSeq (l, k + 1, Len (l)))

csv_row (line) ==
  LET l == IF line # <<>> /\ line[Len (line)] = "\n" THEN SubSeq (line, 1, Len (line) - 1)
           ELSE line
  IN  IF l = <<>> THEN <<>> ELSE split (l)

csv_reader (t) ==
  LET ls == readlines (decode_utf_8_sig (t))
  IN  [k \in 1..Len (ls) |-> csv_row (ls[k])]

(***************************************************************************)
(* Inputs of the merger: fragments and directory trees.                    *)
(***************************************************************************)
\* a data row of 8 columns, good for the aircraft, airport and route layouts
RowText (k) ==
  <<k, ",", "B", ",", "C", ",", "D", ",", "E", ",", "F", ",", "1", ",", "2">>

Frag1 == <<"I", ",", "N", "\n">> \o RowText ("A") \o <<"\n">>
\* another header, a row of 2 columns
Frag2 == <<"N", ",", "I", "\n">> \o <<"B", ",", "1", "\n">>
\* a byte order mark before the header
Frag3 == <<"BOM", "I", ",", "N", "\n">> \o RowText ("C") \o <<"\n">>
\* no line end behind the last row
FragNoEnd == <<"I", ",", "N", "\n">> \o RowText ("D")
\* a file of no byte
FragEmpty == <<>>
\* a header and no line end
FragHeaderOnly == <<"I", ",", "N">>

File (fqfn, content) == [fqfn |-> fqfn, kind |-> "file", content |-> content]
Dir (fqfn)           == [fqfn |-> fqfn, kind |-> "dir", content |-> <<>>]
Other (fqfn)         == [fqfn |-> fqfn, kind |-> "other", content |-> <<>>]

n_a     == <<"a">>
n_x_csv == <<"x", ".", "c", "s", "v">>
n_a_b_csv == <<"a", "-", "b", ".", "c", "s", "v">>
n_a_csv == <<"a", ".", "c", "s", "v">>
n_b_txt == <<"b", ".", "t", "x", "t">>
n_c_csv == <<"c", ".", "c", "s", "v">>

\* the trees below csv_dir: a directory 'a' with or without 'x.csv' next to the
\* files 'a-b.csv' and 'a.csv', a file that is no .csv and a .csv that is no
\* regular file; or no directory at all
FileSystems (n) ==
  LET top == csv_dir (n)
  IN  {{}} \cup
      {{Dir (top), File (join (top, n_b_txt), Frag1), Other (join (top, n_c_csv))}
         \cup da \cup fab \cup fa :
         da  \in {{}, {Dir (join (top, n_a))}} \cup
                 {{Dir (join (top, n_a)), File (join (join (top, n_a), n_x_csv), c)} :
                    c \in {Frag1, Frag3, FragEmpty, FragHeaderOnly, FragNoEnd}},
         fab \in {{}, {File (join (top, n_a_b_csv), Frag2)}},
         fa  \in {{}} \cup {{File (join (top, n_a_csv), c)} : c \in {Frag3, Frag2}}}

\* csv_handler.__init__: walk_csv_tree (self.csv_dir, self._dict); os.listdir
\* raises FileNotFoundError when the directory is not there
NewHandler ==
  /\ mpc = "new"
  /\ IsDir (fs, csv_dir (name))
  /\ _dict' = walk_csv_tree (fs, csv_dir (name), <<>>)
  /\ mpc' = "walked"
  /\ UNCHANGED <<handler_vars, bin_exists, bin_file, f_pos, pc, rows, data, rec_num, exc,
                 reader, block_vars, fs, csv_exists, csv_file, run, first_run, frag_i,
                 main_vars, scan_vars, checker_vars>>

NewHandlerFails ==
  /\ mpc = "new"
  /\ ~IsDir (fs, csv_dir (name))
  /\ exc' = "FileNotFoundError"
  /\ mpc' = "failed"
  /\ UNCHANGED <<handler_vars, bin_exists, bin_file, f_pos, pc, rows, data, rec_num,
                 reader, block_vars, fs, _dict, csv_exists, csv_file, run, first_run, frag_i,
                 main_vars, scan_vars, checker_vars>>

\* the merged dataset opened to append ("a+t" or "a+b")
OpenCsv_appends ==
  /\ mpc = "walked"
  /\ csv_exists' = TRUE
  /\ frag_i' = 0
  /\ mpc' = "merging"
  /\ UNCHANGED <<handler_vars, bin_exists, bin_file, f_pos, pc, rows, data, rec_num, exc,
                 reader, block_vars, fs, _dict, csv_file, run, first_run, main_vars, scan_vars,
                 checker_vars>>

\* f = open_file (self.csv_result, "w+t" or "w+b")
OpenCsv ==
  /\ mpc = "walked"
  /\ csv_exists' = TRUE
  /\ csv_file' = open_w (csv_file)
  /\ frag_i' = 0
  /\ mpc' = "merging"
  /\ UNCHANGED <<handler_vars, bin_exists, bin_file, f_pos, pc, rows, data, rec_num, exc,
                 reader, block_vars, fs, _dict, run, first_run, main_vars, scan_vars, checker_vars>>

\* the fragment the loop of create_csv_file is at, as read_csv_file reads it
from_file == _dict[frag_i + 1].fname
Fragment  == read_csv_file (fs, from_file, is_bin_file (name))

\* f.write ("?") on a file opened "w+b": a str where bytes are needed
HeaderIsStr == frag_i = 0 /\ ~Fragment.read /\ is_bin_file (name)

\* one fragment: its header saved, written when i == 0, then its lines written
MergeFragment ==
  /\ mpc = "merging"
  /\ frag_i < Len (_dict)
  /\ ~HeaderIsStr
  /\ _dict' = [_dict EXCEPT ![frag_i + 1].header = Fragment.header, ![frag_i + 1].read = Fragment.read]
  /\ csv_file' = csv_file \o (IF frag_i = 0 THEN Fragment.header ELSE <<>>)
                          \o Flatten (Fragment.lines)
  /\ frag_i' = frag_i + 1
  /\ UNCHANGED <<handler_vars, bin_exists, bin_file, f_pos, pc, rows, data, rec_num, exc,
                 reader, block_vars, fs, csv_exists, mpc, run, first_run, main_vars, scan_vars,
                 checker_vars>>

\* the first fragment has no line and the file is one of bytes: TypeError
MergeFragmentFails ==
  /\ mpc = "merging"
  /\ frag_i < Len (_dict)
  /\ HeaderIsStr
  /\ exc' = "TypeError"
  /\ mpc' = "failed"
  /\ UNCHANGED <<handler_vars, bin_exists, bin_file, f_pos, pc, rows, data, rec_num,
                 reader, block_vars, fs, _dict, csv_exists, csv_file, run, first_run, frag_i,
                 main_vars, scan_vars, checker_vars>>

\* f.close(); print ("wrote %d bytes" ...)
CloseCsv ==
  /\ mpc = "merging"
  /\ frag_i = Len (_dict)
  /\ mpc' = "merged"
  /\ UNCHANGED <<handler_vars, bin_exists, bin_file, f_pos, pc, rows, data, rec_num, exc,
                 reader, block_vars, fs, _dict, csv_exists, csv_file, run, first_run, frag_i,
                 main_vars, scan_vars, checker_vars>>

\* create_bin_file: f_csv = open_file (self.csv_result, "rt", "utf-8-sig");
\* data = csv.reader (f_csv, delimiter = ",")
OpenCsvReader ==
  /\ mpc = "merged"
  /\ pc = "wait"
  /\ csv_result' = csv_reader (csv_file)
  /\ pc' = "idle"
  /\ mpc' = "encoding"
  /\ UNCHANGED <<name, had_table, bin_exists, bin_file, f_pos, rows, data, rec_num, exc,
                 reader, block_vars, fs, _dict, csv_exists, csv_file, run, first_run, frag_i,
                 main_vars, scan_vars, checker_vars>>

\* the run has ended: with the tables written or with an exception
RunEnded == pc \in {"done", "failed"} \/ mpc = "failed"

\* what a run leaves in the result directory
Results == [csv_exists |-> csv_exists, csv |-> csv_file,
            bin_exists |-> bin_exists, bin |-> bin_file, exc |-> exc]

\* the program is started again over the same fragments: the result files of
\* the first run are there, the objects are new
RunAgain ==
  /\ run = 1
  /\ RunEnded
  /\ first_run' = <<Results>>
  /\ run' = 2
  /\ mpc' = "new"
  /\ pc' = "wait"
  /\ _dict' = <<>>
  /\ csv_result' = <<>>
  /\ frag_i' = 0
  /\ f_pos' = 0
  /\ rows' = -1
  /\ data' = <<>>
  /\ rec_num' = 0
  /\ exc' = ""
  /\ UNCHANGED <<name, had_table, bin_exists, bin_file, reader, block_vars, fs, csv_exists,
                 csv_file, main_vars, scan_vars, checker_vars>>

(***************************************************************************)
(* The methods of a handler called one after the other in any order, the   *)
(* handler of the allocation blocks included: it is built with no_csv, so  *)
(* that self.csv_result is the input file code-blocks.csv itself.          *)
(***************************************************************************)
\* csv_handler (from_file, .., True): self.csv_result = from_file, no walk
NewHandlerNoCsv ==
  /\ mpc = "new"
  /\ name = "code-blocks"
  /\ _dict' = <<>>
  /\ mpc' = "walked"
  /\ UNCHANGED <<handler_vars, bin_exists, bin_file, f_pos, pc, rows, data, rec_num, exc,
                 reader, block_vars, fs, csv_exists, csv_file, run, first_run, frag_i,
                 main_vars, scan_vars, checker_vars>>

\* create_bin_file on a handler whose create_csv_file is not the call before:
\* f_csv = open_file (self.csv_result, "rt", "utf-8-sig"), fatal if it fails
OpenCsvReaderAnew ==
  /\ mpc = "walked"
  /\ pc = "wait"
  /\ IF csv_exists
     THEN /\ csv_result' = csv_reader (csv_file)
          /\ pc' = "idle"
          /\ mpc' = "encoding"
          /\ exc' = exc
     ELSE /\ exc' = "SystemExit"
          /\ mpc' = "failed"
          /\ UNCHANGED <<csv_result, pc>>
  /\ UNCHANGED <<name, had_table, bin_exists, bin_file, f_pos, rows, data, rec_num,
                 reader, block_vars, fs, _dict, csv_exists, csv_file, run, first_run, frag_i,
                 main_vars, scan_vars, checker_vars>>

\* create_csv_file or create_bin_file has returned: the handler takes the
\* next call, self.data and self.rec_num as they are
NextCall ==
  /\ \/ mpc = "merged"
     \/ mpc = "encoding" /\ pc = "done"
  /\ Len (data) <= MaxRows
  /\ mpc' = "walked"
  /\ pc' = "wait"
  /\ UNCHANGED <<name, csv_result, had_table, bin_exists, bin_file, f_pos, rows, data, rec_num,
                 exc, reader, block_vars, fs, _dict, csv_exists, csv_file, run, first_run,
                 frag_i, main_vars, scan_vars, checker_vars>>

(***************************************************************************)
(* main: the four handlers and the statements of main in their order.  A   *)
(* handler's input is the state of its directory (of its file, for the     *)
(* allocation blocks) and the rows its fragments hold; create_bin_file is  *)
(* taken as a whole here, with the record functions on its rows.           *)
(***************************************************************************)
Stmt (op, h) == [op |-> op, h |-> h]

\* the statements of main behind do_init, make_dir and zip_handler (), in order
Stmts ==
  <<Stmt ("new", "aircraft"), Stmt ("new", "airports"), Stmt ("new", "routes"),
    Stmt ("new", "code-blocks"),
    Stmt ("list", ""),
    Stmt ("create_csv_file", "aircraft"), Stmt ("create_csv_file", "airports"),
    Stmt ("create_csv_file", "routes"),
    Stmt ("create_bin_file", "aircraft"), Stmt ("create_bin_file", "airports"),
    Stmt ("create_bin_file", "routes"), Stmt ("create_bin_file", "code-blocks"),
    Stmt ("create_c_test", "aircraft"), Stmt ("create_c_test", "airports"),
    Stmt ("create_c_test", "routes"), Stmt ("create_c_test", "code-blocks"),
    Stmt ("create_gen_data_h", ""),
    Stmt ("gen_c_file", "code-blocks"),
    Stmt ("build_and_run", "aircraft"), Stmt ("build_and_run", "airports"),
    Stmt ("build_and_run", "routes"), Stmt ("build_and_run", "code-blocks"),
    Stmt ("report", "")>>

\* main is at a statement of kind op
At (op) == m_exit = "running" /\ m_step \in DOMAIN Stmts /\ Stmts[m_step].op = op
h_now   == Stmts[m_step].h

\* sys.exit (status), or the end of main, or an exception nobody catches
Exit (status, msg) ==
  /\ m_exit' = status
  /\ m_out' = msg
  /\ UNCHANGED m_step

Go == m_step' = m_step + 1 /\ UNCHANGED <<m_exit, m_out>>

\* csv_handler (name, ...): walk_csv_tree unless no_csv
MainNew ==
  /\ At ("new")
  /\ IF h_now # "code-blocks" /\ m_in[h_now].root = "missing"
     THEN Exit ("1", "FileNotFoundError")
     ELSE Go
  /\ UNCHANGED <<opt, m_in, m_csv, m_bin, m_rec_num, m_c_test, m_ran, m_rc, encode_vars,
                 merge_vars, checker_vars, scan_vars>>

\* if opt.list: ... sys.exit (0)
MainList ==
  /\ At ("list")
  /\ IF opt.list THEN Exit ("0", "num: ...") ELSE Go
  /\ UNCHANGED <<opt, m_in, m_csv, m_bin, m_rec_num, m_c_test, m_ran, m_rc, encode_vars,
                 merge_vars, checker_vars, scan_vars>>

\* h.create_csv_file (..): the rows of the fragments behind one header; a file
\* of no line when the directory holds no fragment
MainCreateCsv ==
  /\ At ("create_csv_file")
  /\ m_csv' = [m_csv EXCEPT ![h_now] = [exists |-> TRUE,
                                        rows |-> IF m_in[h_now].root = "empty" THEN <<>>
                                                 ELSE m_in[h_now].rows]]
  /\ Go
  /\ UNCHANGED <<opt, m_in, m_bin, m_rec_num, m_c_test, m_ran, m_rc, encode_vars,
                 merge_vars, checker_vars, scan_vars>>

\* the rows create_bin_file reads: the merged dataset, or the input file itself
\* of the handler made with no_csv
csv_of (h) == IF h = "code-blocks" THEN m_in[h].rows ELSE m_csv[h].rows
csv_there (h) == IF h = "code-blocks" THEN m_in[h].root # "missing" ELSE m_csv[h].exists

\* the exception create_bin_file ends with on these rows, "" when it completes
create_bin_file_exc (h, rws) ==
  IF rws = <<>> THEN "UnboundLocalError"
  ELSE LET bad == {k \in 2..Len (rws) : rec_func (h, rws[k]).err # ""}
       IN  IF bad = {} THEN ""
           ELSE rec_func (h, rws[CHOOSE k \in bad : \A o \in bad : k <= o]).err

\* h.create_bin_file()
MainCreateBin ==
  /\ At ("create_bin_file")
  /\ IF ~csv_there (h_now)
     THEN /\ Exit ("1", "Fatal error: Failed to open")
          /\ UNCHANGED <<m_bin, m_rec_num>>
     ELSE IF create_bin_file_exc (h_now, csv_of (h_now)) # ""
     THEN /\ Exit ("1", create_bin_file_exc (h_now, csv_of (h_now)))
          /\ m_bin' = [m_bin EXCEPT ![h_now] = "opened"]
          /\ UNCHANGED m_rec_num
     ELSE /\ Go
          /\ m_bin' = [m_bin EXCEPT ![h_now] = "written"]
          /\ m_rec_num' = [m_rec_num EXCEPT ![h_now] = Len (csv_of (h_now)) - 1]
  /\ UNCHANGED <<opt, m_in, m_csv, m_c_test, m_ran, m_rc, encode_vars, merge_vars,
                 checker_vars, scan_vars>>

\* create_c_test without the test of self.rec_num
MainCreateCTest_unchecked ==
  /\ At ("create_c_test")
  /\ Go
  /\ m_c_test' = [m_c_test EXCEPT ![h_now] =
                    [written |-> TRUE, rec_len |-> rec_len_of (h_now),
                     rec_num |-> m_rec_num[h_now]]]
  /\ UNCHANGED <<opt, m_in, m_csv, m_bin, m_rec_num, m_ran, m_rc, encode_vars, merge_vars,
                 checker_vars, scan_vars>>

\* h.create_c_test()
MainCreateCTest ==
  /\ At ("create_c_test")
  /\ IF m_rec_num[h_now] = 0
     THEN /\ Exit ("1", "Fatal error: Call 'self.create_bin_file()' first")
          /\ UNCHANGED m_c_test
     ELSE /\ Go
          /\ m_c_test' = [m_c_test EXCEPT ![h_now] =
                            [written |-> TRUE, rec_len |-> rec_len_of (h_now),
                             rec_num |-> m_rec_num[h_now]]]
  /\ UNCHANGED <<opt, m_in, m_csv, m_bin, m_rec_num, m_ran, m_rc, encode_vars, merge_vars,
                 checker_vars, scan_vars>>

\* create_gen_data_h (result_dir + "/gen_data.h")
MainGenDataH ==
  /\ At ("create_gen_data_h")
  /\ Go
  /\ UNCHANGED <<opt, m_in, m_csv, m_bin, m_rec_num, m_c_test, m_ran, m_rc, encode_vars,
                 merge_vars, checker_vars, scan_vars>>

\* if opt.gen_c: gen_c_file (blocks)
MainGenC ==
  /\ At ("gen_c_file")
  /\ Go
  /\ UNCHANGED <<opt, m_in, m_csv, m_bin, m_rec_num, m_c_test, m_ran, m_rc, encode_vars,
                 merge_vars, checker_vars, scan_vars>>

\* what os.system (cmd) returns: what the shell gave back for the command, -1
\* when the command could not be run
RunProgResults == {-1, 0, 1}

\* rc += h.build_and_run()
add_rc (rc, r) == rc + r

\* h.build_and_run(): the compiler is run; error () when it fails; with
\* opt.test the checker is run and what run_prog gives is returned, else 0
MainBuildAndRun ==
  /\ At ("build_and_run")
  /\ \E compiled \in RunProgResults, ran \in RunProgResults :
       IF compiled # 0
       THEN /\ Exit ("1", "Compile failed")
            /\ UNCHANGED <<m_ran, m_rc>>
       ELSE /\ Go
            /\ m_ran' = [m_ran EXCEPT ![h_now] = [done |-> TRUE,
                                                  rc |-> IF opt.test THEN ran ELSE 0]]
            /\ m_rc' = add_rc (m_rc, IF opt.test THEN ran ELSE 0)
  /\ UNCHANGED <<opt, m_in, m_csv, m_bin, m_rec_num, m_c_test, encode_vars, merge_vars,
                 checker_vars, scan_vars>>

\* if opt.test: "All tests succeeded!" or error ("There were some errors!");
\* else the hint to run the tests; main returns
MainReport ==
  /\ At ("report")
  /\ IF opt.test
     THEN IF m_rc = 0 THEN Exit ("0", "All tests succeeded!")
          ELSE Exit ("1", "There were some errors!")
     ELSE Exit ("0", "Run --test to test these")
  /\ UNCHANGED <<opt, m_in, m_csv, m_bin, m_rec_num, m_c_test, m_ran, m_rc, encode_vars,
                 merge_vars, checker_vars, scan_vars>>

(***************************************************************************)
(* The generated checker (create_c_test_file): main and check_record of    *)
(* test-<name>.c.  A uint32_t or size_t is kept as its bytes, lowest       *)
(* first, so that the arithmetic has the width it has in C.  time_t and    *)
(* size_t have 8 bytes (the x64 builds); malloc gives the bytes asked for. *)
(***************************************************************************)
\* sizeof (RECORD) under #pragma pack(1)
sizeof_RECORD (n) ==
  CASE n = "aircraft"    -> 6 + 10 + 10 + 40
    [] n = "airports"    -> 4 + 3 + 40 + 20 + 2 + 4 + 4
    [] n = "routes"      -> 8 + 20
    [] n = "code-blocks" -> 4 + 4 + 4 + 4 + 4 + 1 + 2

\* FIELD_1_SIZE: sizeof (dummy.FIELD_1); FIELD_1 is the first member
FIELD_1_SIZE (n) ==
  CASE n = "aircraft" -> 6 [] n = "airports" -> 4 [] n = "routes" -> 8

\* sizeof (BIN_header)
sizeof_hdr == 12 + 8 + 4 + 4

\* byte k (from 0) of a number kept as bytes, 0 beyond its width
ByteAt (a, k) == IF k + 1 \in DOMAIN a THEN a[k + 1] ELSE 0

\* the sum of a[i] * b[k - i] for i = 0 .. m
RECURSIVE conv(_, _, _, _)
conv (a, b, k, m) ==
  IF m < 0 THEN 0 ELSE ByteAt (a, m) * ByteAt (b, k - m) + conv (a, b, k, m - 1)

\* a * b kept to n bytes (modulo 256^n)
RECURSIVE mul_from(_, _, _, _, _)
mul_from (a, b, k, n, carry) ==
  IF k = n THEN <<>>
  ELSE LET t == conv (a, b, k, k) + carry
       IN  <<t % 256>> \o mul_from (a, b, k + 1, n, t \div 256)

mul_bytes (a, b, n) == mul_from (a, b, 0, n, 0)

\* a + b kept to n bytes
RECURSIVE add_from(_, _, _, _, _)
add_from (a, b, k, n, carry) ==
  IF k = n THEN <<>>
  ELSE LET t == ByteAt (a, k) + ByteAt (b, k) + carry
       IN  <<t % 256>> \o add_from (a, b, k + 1, n, t \div 256)

add_bytes (a, b, n) == add_from (a, b, 0, n, 0)

\* a < b for unsigned numbers of the same width
RECURSIVE lt_bytes(_, _)
lt_bytes (a, b) ==
  IF a = <<>> THEN FALSE
  ELSE IF a[Len (a)] # b[Len (b)] THEN a[Len (a)] < b[Len (b)]
  ELSE lt_bytes (SubSeq (a, 1, Len (a) - 1), SubSeq (b, 1, Len (b) - 1))

\* hdr.rec_len * hdr.rec_num: a product of two uint32_t is a uint32_t
mul_u32 (a, b) == mul_bytes (a, b, 4)

hdr_rec_num_bytes == SubSeq (c_hdr, 21, 24)
hdr_rec_len_bytes == SubSeq (c_hdr, 25, 28)

\* dsize + sizeof (hdr), a size_t
expected_size == add_bytes (mul_u32 (hdr_rec_len_bytes, hdr_rec_num_bytes),
                            le_bytes (8, sizeof_hdr), 8)

\* tolower of one character, A-Z only
tolower (c) == IF c >= 65 /\ c <= 90 THEN c + 32 ELSE c

\* strnicmp (first, last, count): the bytes as unsigned char, A-Z as a-z, up
\* to count bytes or the first NUL
RECURSIVE strnicmp(_, _, _)
strnicmp (first, last, count) ==
  IF count = 0 THEN 0
  ELSE LET f == tolower (ByteAt (first, 0))
           l == tolower (ByteAt (last, 0))
       IN  IF f = 0 \/ f # l \/ count = 1 THEN f - l
           ELSE strnicmp (Tail (first), Tail (last), count - 1)

\* rec->FIELD_1 and what follows it in the record
FIELD_1 (rec) == rec

\* a check that takes equal neighbours
sort_error_takes_equal (n, k, rec, prev) ==
  /\ k >= 1
  /\ ByteAt (FIELD_1 (rec), 0) # 0
  /\ strnicmp (FIELD_1 (prev), FIELD_1 (rec), FIELD_1_SIZE (n)) > 0

\* check_record of the string domains: whether num_err is incremented
sort_error (n, k, rec, prev) ==
  /\ k >= 1
  /\ ByteAt (FIELD_1 (rec), 0) # 0
  /\ strnicmp (FIELD_1 (prev), FIELD_1 (rec), FIELD_1_SIZE (n)) >= 0

\* start compared as int32_t: a set top bit makes the number negative
start_error_signed (k, rec, prev) ==
  /\ k >= 1
  /\ LET neg (r) == r[4] >= 128
     IN  IF neg (rec) # neg (prev) THEN neg (rec)
         ELSE lt_bytes (SubSeq (rec, 1, 4), SubSeq (prev, 1, 4))

\* check_record of CODE_BLOCKS_LOOKUP: prev_rec->start > rec->start
start_error (k, rec, prev) ==
  /\ k >= 1
  /\ lt_bytes (SubSeq (rec, 1, 4), SubSeq (prev, 1, 4))

\* rec->is_military
is_military (rec) == rec[21] # 0

check_record (n, k, rec, prev) ==
  IF n = "code-blocks" THEN start_error (k, rec, prev) ELSE sort_error (n, k, rec, prev)

\* what memory that was never written may hold
Garbage == {0, 90}

\* fopen (bin_file, "rb")
CheckerOpen ==
  /\ c_pc = "start"
  /\ IF c_exists THEN c_pc' = "opened" /\ UNCHANGED c_exit
     ELSE c_pc' = "ended" /\ c_exit' = "1"
  /\ UNCHANGED <<c_name, c_exists, c_file, c_hdr, c_fpos, dsize, num_rec, num_err, num_mil,
                 prev_rec, c_recs, encode_vars, merge_vars, main_vars, scan_vars>>

\* fread (&hdr, 1, sizeof(hdr), f): the bytes the file does not have stay as
\* they were in 'hdr'
CheckerReadHeader ==
  /\ c_pc = "opened"
  /\ \E g \in Garbage :
       c_hdr' = [k \in 1..sizeof_hdr |-> IF k <= Len (c_file) THEN c_file[k] ELSE g]
  /\ c_fpos' = IF Len (c_file) < sizeof_hdr THEN Len (c_file) ELSE sizeof_hdr
  /\ c_pc' = "header"
  /\ UNCHANGED <<c_name, c_exists, c_file, dsize, num_rec, num_err, num_mil, prev_rec,
                 c_recs, c_exit, encode_vars, merge_vars, main_vars, scan_vars>>

\* fsize != dsize + sizeof(hdr), both as size_t
SizeDiffers == le_bytes (8, Len (c_file)) # expected_size

\* "Something is wrong with the records!", exit (1)
CheckerSizeDiffers ==
  /\ c_pc = "header"
  /\ SizeDiffers
  /\ c_exit' = "1"
  /\ c_pc' = "ended"
  /\ UNCHANGED <<c_name, c_exists, c_file, c_hdr, c_fpos, dsize, num_rec, num_err, num_mil,
                 prev_rec, c_recs, encode_vars, merge_vars, main_vars, scan_vars>>

\* start = allocate_records (dsize); dsize is fsize - sizeof(hdr) here
CheckerAllocate ==
  /\ c_pc = "header"
  /\ ~SizeDiffers
  /\ dsize' = Len (c_file) - sizeof_hdr
  /\ c_pc' = "loop"
  /\ UNCHANGED <<c_name, c_exists, c_file, c_hdr, c_fpos, num_rec, num_err, num_mil,
                 prev_rec, c_recs, c_exit, encode_vars, merge_vars, main_vars, scan_vars>>

\* num_rec < hdr.rec_num
MoreRecords == lt_bytes (le_bytes (4, num_rec), hdr_rec_num_bytes)

\* rec = start + num_rec lies within the bytes allocated
RecInBounds == (num_rec + 1) * sizeof_RECORD (c_name) <= dsize

\* the bytes fread gets for one record
BytesRead ==
  LET end == c_fpos + sizeof_RECORD (c_name)
  IN  SubSeq (c_file, c_fpos + 1, IF end < Len (c_file) THEN end ELSE Len (c_file))

\* the body of the loop for the record rec
Decoded (rec) ==
  /\ num_err' = IF check_record (c_name, num_rec, rec, prev_rec) THEN num_err + 1
                ELSE num_err
  /\ num_mil' = IF c_name = "code-blocks" /\ is_military (rec) THEN num_mil + 1 ELSE num_mil
  /\ prev_rec' = rec
  /\ c_recs' = Append (c_recs, rec)
  /\ num_rec' = num_rec + 1
  /\ c_fpos' = c_fpos + Len (BytesRead)

\* one turn of the loop: fread (rec, 1, sizeof(*rec), f), check_record, ...
CheckerReadRecord ==
  /\ c_pc = "loop"
  /\ MoreRecords
  /\ RecInBounds
  /\ Decoded (BytesRead)
  /\ UNCHANGED <<c_name, c_exists, c_file, c_pc, c_hdr, dsize, c_exit, encode_vars,
                 merge_vars, main_vars, scan_vars>>

\* one turn of the loop with *rec beyond the bytes allocated (undefined): the
\* run goes on with the bytes read and whatever the memory holds behind them
CheckerReadPastEnd ==
  /\ c_pc = "loop"
  /\ MoreRecords
  /\ ~RecInBounds
  /\ \E g \in Garbage :
       Decoded (BytesRead \o [k \in 1..(sizeof_RECORD (c_name) - Len (BytesRead)) |-> g])
  /\ UNCHANGED <<c_name, c_exists, c_file, c_pc, c_hdr, dsize, c_exit, encode_vars,
                 merge_vars, main_vars, scan_vars>>

\* ... or the access ends the process
CheckerCrash ==
  /\ c_pc = "loop"
  /\ MoreRecords
  /\ ~RecInBounds
  /\ c_exit' = "crash"
  /\ c_pc' = "ended"
  /\ UNCHANGED <<c_name, c_exists, c_file, c_hdr, c_fpos, dsize, num_rec, num_err, num_mil,
                 prev_rec, c_recs, encode_vars, merge_vars, main_vars, scan_vars>>

\* return (num_err == 0 ? 0 : 1)
exit_code (errs) == IF errs = 0 THEN "0" ELSE "1"

CheckerReturn ==
  /\ c_pc = "loop"
  /\ ~MoreRecords
  /\ c_exit' = exit_code (num_err)
  /\ c_pc' = "ended"
  /\ UNCHANGED <<c_name, c_exists, c_file, c_hdr, c_fpos, dsize, num_rec, num_err, num_mil,
                 prev_rec, c_recs, encode_vars, merge_vars, main_vars, scan_vars>>

(***************************************************************************)
(* Inputs of the checker: a table of up to MaxRecs records of the domain   *)
(* behind a header whose fields are drawn from a few values each, a file   *)
(* too short for a header, and no file.                                    *)
(***************************************************************************)
\* a record of a string domain: the key, NUL-padded, and the other fields
KeyRecord (n, key) ==
  pack_s (FIELD_1_SIZE (n), to_bytes (key)).buf
    \o [k \in 1..(sizeof_RECORD (n) - FIELD_1_SIZE (n)) |-> 49]

\* a record of the allocation blocks: start and is_military, the rest zero
BlockRecord (start, mil) ==
  start \o [k \in 1..16 |-> 0] \o <<mil>> \o <<90, 90>>

\* the key that fills FIELD_1 without a NUL
FullKey (n) == [k \in 1..FIELD_1_SIZE (n) |-> "A"]

RecordPool (n) ==
  IF n = "code-blocks"
  THEN {BlockRecord (<<0, 0, 0, 0>>, 0), BlockRecord (<<1, 0, 0, 0>>, 1),
        BlockRecord (<<0, 1, 0, 0>>, 0), BlockRecord (<<0, 0, 0, 128>>, 0)}
  ELSE {KeyRecord (n, k) : k \in {<<>>, <<"a">>, <<"B">>, <<"e'">>, FullKey (n)}}

\* the sequences of up to k records
RECURSIVE RecordLists(_, _)
RecordLists (n, k) ==
  IF k = 0 THEN {<<>>}
  ELSE LET shorter == RecordLists (n, k - 1)
       IN  shorter \cup {Append (l, r) : l \in {x \in shorter : Len (x) = k - 1},
                                         r \in RecordPool (n)}

Markers == {to_bytes (bin_marker), to_bytes (<<"B", "I", "N", "-", "d", "u", "m", "p", "1", "0", "9", "1">>)}

\* hdr.rec_num
RecNums == {le_bytes (4, k) : k \in 0..(MaxRecs + 1)}

\* hdr.rec_len: sizeof (RECORD), twice and half of it, and 0x55555556, whose
\* triple is 2^32 + 2
RecLens (n) ==
  {le_bytes (4, sizeof_RECORD (n)), le_bytes (4, 2 * sizeof_RECORD (n)),
   le_bytes (4, sizeof_RECORD (n) \div 2), <<86, 85, 85, 85>>}

Tables (n) ==
  {m \o le_bytes (8, 1700000000) \o rn \o rl \o Flatten (recs) \o extra :
     m \in Markers, rn \in RecNums, rl \in RecLens (n), recs \in RecordLists (n, MaxRecs),
     extra \in {<<>>, <<7, 7>>}}

CheckerFiles (n) ==
  Tables (n) \cup {<<>>, SubSeq (to_bytes (bin_marker), 1, 10)}

(***************************************************************************)
(* The specifications.                                                     *)
(***************************************************************************)
InitRun ==
  /\ bin_exists = had_table
  /\ bin_file = IF had_table THEN OldTable (name) ELSE <<>>
  /\ f_pos = 0
  /\ pc = "idle"
  /\ rows = -1
  /\ data = <<>>
  /\ rec_num = 0
  /\ exc = ""
  /\ reader = "none"
  /\ sorted_blocks = <<>>
  /\ num_sorted_blocks = 0
  /\ addr = 0
  /\ found = 0

\* the merger is not part of the run
NoMerge ==
  /\ fs = {}
  /\ _dict = <<>>
  /\ csv_exists = TRUE
  /\ csv_file = <<>>
  /\ mpc = "none"
  /\ run = 1
  /\ first_run = <<>>
  /\ frag_i = 0

\* main is not part of the run
NoMain ==
  /\ opt = [list |-> FALSE, test |-> FALSE, gen_c |-> FALSE]
  /\ m_in = <<>>
  /\ m_step = 0
  /\ m_csv = <<>>
  /\ m_bin = <<>>
  /\ m_rec_num = <<>>
  /\ m_c_test = <<>>
  /\ m_ran = <<>>
  /\ m_rc = 0
  /\ m_exit = "none"
  /\ m_out = ""

\* no thread calls the classifier
NoScan ==
  /\ t_pc = [t \in Threads |-> "idle"]
  /\ t_addr = [t \in Threads |-> 0]
  /\ t_i = [t \in Threads |-> 0]
  /\ t_b = [t \in Threads |-> 0]
  /\ t_ret = [t \in Threads |-> 0]

\* the checker is not part of the run
NoChecker ==
  /\ c_name = ""
  /\ c_exists = FALSE
  /\ c_file = <<>>
  /\ c_pc = "none"
  /\ c_hdr = <<>>
  /\ c_fpos = 0
  /\ dsize = 0
  /\ num_rec = 0
  /\ num_err = 0
  /\ num_mil = 0
  /\ prev_rec = <<>>
  /\ c_recs = <<>>
  /\ c_exit = "none"

\* one handler of main, its merged CSV file, and a reader of its table
Init ==
  /\ name \in Names
  /\ csv_result \in CsvFiles (name)
  /\ had_table \in BOOLEAN
  /\ InitRun
  /\ NoMerge
  /\ NoMain
  /\ NoChecker
  /\ NoScan

\* the statements of create_bin_file
CreateBinFile ==
  \/ OpenBin
  \/ Reserve
  \/ SkipHeaderRow
  \/ WriteRecord
  \/ RecordFails
  \/ SeekStart
  \/ WriteHeader
  \/ HeaderFails
  \/ Close

Next ==
  \/ CreateBinFile
  \/ Read
  \/ GenCFile
  \/ \E a \in Addresses : FindBlock (a)

Spec == Init /\ [][Next]_vars

\* the allocation blocks: code-blocks.csv, its table, the C array, the classifier
InitBlocks ==
  /\ name = "code-blocks"
  /\ csv_result \in {<<>>} \cup {<<HeaderRow>> \o l : l \in BlockLists}
  /\ had_table = FALSE
  /\ InitRun
  /\ NoMerge
  /\ NoMain
  /\ NoChecker
  /\ NoScan

NextBlocks ==
  \/ CreateBinFile
  \/ GenCFile
  \/ \E a \in Addresses : FindBlock (a)

SpecBlocks == InitBlocks /\ [][NextBlocks]_vars

\* a handler of main that merges, its directory tree, and two runs over it
InitMerge ==
  /\ name \in {"aircraft", "airports", "routes"}
  /\ fs \in FileSystems (name)
  /\ csv_result = <<>>
  /\ had_table \in BOOLEAN
  /\ bin_exists = had_table
  /\ bin_file = IF had_table THEN OldTable (name) ELSE <<>>
  /\ csv_exists \in BOOLEAN
  /\ csv_file = IF csv_exists THEN Frag2 ELSE <<>>
  /\ _dict = <<>>
  /\ mpc = "new"
  /\ pc = "wait"
  /\ run = 1
  /\ first_run = <<>>
  /\ frag_i = 0
  /\ f_pos = 0
  /\ rows = -1
  /\ data = <<>>
  /\ rec_num = 0
  /\ exc = ""
  /\ reader = "none"
  /\ sorted_blocks = <<>>
  /\ num_sorted_blocks = 0
  /\ addr = 0
  /\ found = 0
  /\ NoMain
  /\ NoChecker
  /\ NoScan

NextMerge ==
  \/ NewHandler
  \/ NewHandlerFails
  \/ OpenCsv
  \/ MergeFragment
  \/ MergeFragmentFails
  \/ CloseCsv
  \/ OpenCsvReader
  \/ CreateBinFile
  \/ RunAgain

SpecMerge == InitMerge /\ [][NextMerge]_vars

\* a row of the pool the record function takes, and one it fails on
GoodRow (h) == CHOOSE r \in RowPool (h) : rec_func (h, r).err = ""
BadRow (h)  == CHOOSE r \in RowPool (h) : rec_func (h, r).err # ""

\* what a handler finds: no directory (no file), a directory without fragment
\* (a file without line), or fragments with a header and rows
MainInputs (h) ==
  {[root |-> "missing", rows |-> <<>>],
   [root |-> "empty", rows |-> <<>>],
   [root |-> "ok", rows |-> <<HeaderRow, GoodRow (h)>>],
   [root |-> "ok", rows |-> <<HeaderRow, BadRow (h)>>]}
  \cup (IF h \in {"aircraft", "routes"} THEN {[root |-> "ok", rows |-> <<HeaderRow>>]} ELSE {})

\* one run of main
InitMain ==
  /\ opt \in [list : BOOLEAN, test : BOOLEAN, gen_c : BOOLEAN]
  /\ m_in \in {f \in [Names -> UNION {MainInputs (h) : h \in Names}] :
                 \A h \in Names : f[h] \in MainInputs (h)}
  /\ m_step = 1
  /\ m_csv = [h \in Names |-> [exists |-> FALSE, rows |-> <<>>]]
  /\ m_bin = [h \in Names |-> "none"]
  /\ m_rec_num = [h \in Names |-> 0]
  /\ m_c_test = [h \in Names |-> [written |-> FALSE, rec_len |-> 0, rec_num |-> 0]]
  /\ m_ran = [h \in Names |-> [done |-> FALSE, rc |-> 0]]
  /\ m_rc = 0
  /\ m_exit = "running"
  /\ m_out = ""
  /\ name = "aircraft"
  /\ csv_result = <<>>
  /\ had_table = FALSE
  /\ InitRun
  /\ NoMerge
  /\ NoChecker
  /\ NoScan

NextMain ==
  \/ MainNew
  \/ MainList
  \/ MainCreateCsv
  \/ MainCreateBin
  \/ MainCreateCTest
  \/ MainGenDataH
  \/ MainGenC
  \/ MainBuildAndRun
  \/ MainReport

SpecMain == InitMain /\ [][NextMain]_vars

\* the checker of one domain before a file
InitChecker ==
  /\ c_name \in Names
  /\ c_exists \in BOOLEAN
  /\ c_file \in (IF c_exists THEN CheckerFiles (c_name) ELSE {<<>>})
  /\ c_pc = "start"
  /\ c_hdr = [k \in 1..sizeof_hdr |-> 0]
  /\ c_fpos = 0
  /\ dsize = 0
  /\ num_rec = 0
  /\ num_err = 0
  /\ num_mil = 0
  /\ prev_rec = <<>>
  /\ c_recs = <<>>
  /\ c_exit = "running"
  /\ name = "aircraft"
  /\ csv_result = <<>>
  /\ had_table = FALSE
  /\ InitRun
  /\ NoMerge
  /\ NoMain
  /\ NoScan

NextChecker ==
  \/ CheckerOpen
  \/ CheckerReadHeader
  \/ CheckerSizeDiffers
  \/ CheckerAllocate
  \/ CheckerReadRecord
  \/ CheckerReadPastEnd
  \/ CheckerCrash
  \/ CheckerReturn

SpecChecker == InitChecker /\ [][NextChecker]_vars

\* code-blocks.csv: a header line and two rows of seven columns
BlocksText ==
  <<"I", ",", "N", "\n">>
    \o <<"8", ",", "F", ",", "1", ",", "8", ",", "8", ",", "0", ",", "Z", "Z", "\n">>
    \o <<"0", ",", "7", ",", "1", ",", "0", ",", "0", ",", "1", ",", "U", "S", "\n">>

\* a handler of main, the allocation blocks included, and its methods called
\* in any order
InitOps ==
  /\ name \in Names
  /\ fs \in (IF name = "code-blocks" THEN {{}} ELSE FileSystems (name))
  /\ csv_result = <<>>
  /\ had_table \in BOOLEAN
  /\ bin_exists = had_table
  /\ bin_file = IF had_table THEN OldTable (name) ELSE <<>>
  /\ csv_exists \in (IF name = "code-blocks" THEN {TRUE} ELSE BOOLEAN)
  /\ csv_file = IF name = "code-blocks" THEN BlocksText
                ELSE IF csv_exists THEN Frag2 ELSE <<>>
  /\ _dict = <<>>
  /\ mpc = "new"
  /\ pc = "wait"
  /\ run = 1
  /\ first_run = <<>>
  /\ frag_i = 0
  /\ f_pos = 0
  /\ rows = -1
  /\ data = <<>>
  /\ rec_num = 0
  /\ exc = ""
  /\ reader = "none"
  /\ sorted_blocks = <<>>
  /\ num_sorted_blocks = 0
  /\ addr = 0
  /\ found = 0
  /\ NoMain
  /\ NoChecker
  /\ NoScan

NextOps ==
  \/ name # "code-blocks" /\ NewHandler
  \/ name # "code-blocks" /\ NewHandlerFails
  \/ NewHandlerNoCsv
  \/ OpenCsv
  \/ MergeFragment
  \/ MergeFragmentFails
  \/ CloseCsv
  \/ OpenCsvReader
  \/ OpenCsvReaderAnew
  \/ CreateBinFile
  \/ NextCall
  \/ GenCFile

SpecOps == InitOps /\ [][NextOps]_vars

\* the classifier of the generated file and the threads that call it
ScanTables ==
  SeqsUpTo ({BlockRow (b, sb, <<"0">>, <<"Z", "Z">>) :
               b \in {<<"0">>, <<"8">>}, sb \in {<<"0">>, <<"8">>}}, MaxBlocks)
    \cup Orderings ({block1, block2, block3}) \cup Orderings ({blockA, blockB})

ScanAddresses ==
  {0, 8, DigitsVal (<<"4", "3", "F", "0", "0", "5">>, 16),
         DigitsVal (<<"A", "B", "C", "D", "1", "2">>, 16)}

InitScan ==
  /\ name = "code-blocks"
  /\ csv_result \in {<<HeaderRow>> \o l : l \in ScanTables \ {<<>>}}
  /\ had_table = FALSE
  /\ bin_exists = TRUE
  /\ \E t \in Times :
       bin_file = pack_bin_header (t, Len (csv_result) - 1, rec_len_of (name)).buf
                    \o Flatten ([k \in 1..(Len (csv_result) - 1) |->
                                   rec_func (name, csv_result[k + 1]).buf])
  /\ f_pos = Len (bin_file)
  /\ pc = "done"
  /\ rows = Len (csv_result) - 1
  /\ data = Tail (csv_result)
  /\ rec_num = Len (csv_result) - 1
  /\ exc = ""
  /\ reader = "none"
  /\ sorted_blocks = <<>>
  /\ num_sorted_blocks = 0
  /\ addr = 0
  /\ found = 0
  /\ NoMerge
  /\ NoMain
  /\ NoChecker
  /\ NoScan

NextScan ==
  \/ GenCFile
  \/ \E t \in Threads, a \in ScanAddresses : ScanCall (t, a)
  \/ \E t \in Threads : ScanNext (t)
  \/ \E t \in Threads : ScanFound (t)
  \/ \E t \in Threads : ScanNull (t)

SpecScan == InitScan /\ [][NextScan]_vars

(***************************************************************************)
(* Properties.                                                             *)
(***************************************************************************)
\* create_bin_file has completed without error
Completed == pc \in {"done", "generated", "classified"}

\* the number of data rows behind the header row of the merged CSV
NumDataRows == Len (csv_result) - 1

\* the record length the specification gives for each domain
SpecRecLen (n) ==
  CASE n = "aircraft" -> 66 [] n = "airports" -> 77 [] n = "routes" -> 28
    [] n = "code-blocks" -> 23

\* C1: when create_bin_file completes without error, the file starts with the
\* 12-byte magic, the header's record_count is the number N of data rows, its
\* record_len is the domain's (66, 77, 28, 23) and the file holds
\* 28 + record_count * record_len bytes.
C1_HeaderIntegrity ==
  Completed =>
    /\ Len (bin_file) >= 28
    /\ SubSeq (bin_file, 1, 12) = <<66, 73, 78, 45, 100, 117, 109, 112, 49, 48, 57, 48>>
    /\ hdr_rec_num (bin_file) = NumDataRows
    /\ hdr_rec_len (bin_file) = SpecRecLen (name)
    /\ Len (bin_file) = 28 + hdr_rec_num (bin_file) * hdr_rec_len (bin_file)

\* a table of two records has been completed over an older table
C1_Witness ==
  /\ pc = "done"
  /\ NumDataRows = 2
  /\ had_table
  /\ name = "airports"

\* block i of the emitted array passes the classifier's test for address a
Matches (a, b) == BitAnd (a, b.sign_bitmask) = b.bitmask
Matching (a) == {i \in 1..num_sorted_blocks : Matches (a, sorted_blocks[i])}

\* C2: aircraft_find_block returns the block at the smallest index that passes
\* (addr & sign_bitmask) == bitmask, and NULL exactly when no block passes.
C2_FirstMatch ==
  pc = "classified" =>
    IF Matching (addr) = {} THEN found = 0
    ELSE /\ found \in Matching (addr)
         /\ \A j \in Matching (addr) : found <= j

\* the first block matches and a later one matches too
C2_Witness ==
  /\ pc = "classified"
  /\ found = 1
  /\ 2 \in Matching (addr)
  /\ sorted_blocks[1] # sorted_blocks[2]

\* gen_c_file has written the array
Generated == pc \in {"generated", "classified"}

\* the numeric value of a row's sign_bitmask column
NumKey (d) == int (d[5], 16).val

\* arr is the rows rws in stable descending order of the numeric sign_bitmask
IsStableDescNumeric (arr, rws) ==
  \E p \in Orderings (1..Len (rws)) :
    /\ arr = [i \in 1..Len (rws) |-> c_entry (rws[p[i]])]
    /\ \A i, j \in 1..Len (rws) :
         i < j => \/ NumKey (rws[p[i]]) > NumKey (rws[p[j]])
                  \/ NumKey (rws[p[i]]) = NumKey (rws[p[j]]) /\ p[i] < p[j]

\* C3 (as claimed; the code sorts the texts, not the numbers): the array emitted
\* by gen_c_file is the stable descending sort of the data rows by the numeric
\* value of sign_bitmask, whatever the textual form of the hex column.
C3_StableNumericSort ==
  Generated => IsStableDescNumeric (sorted_blocks, data)

\* the number of set bits of v
RECURSIVE Popcount(_)
Popcount (v) == IF v = 0 THEN 0 ELSE (v % 2) + Popcount (v \div 2)

NumericDescending (arr) ==
  \A i \in 1..(Len (arr) - 1) : arr[i].sign_bitmask >= arr[i + 1].sign_bitmask

\* C4 (as claimed): in a list sorted descending by sign_bitmask, an address
\* matched by two or more blocks is given the block of greatest specificity
\* (most set bits in sign_bitmask) among the matching blocks.
C4_NarrowestWins ==
  (pc = "classified" /\ NumericDescending (sorted_blocks)
     /\ Cardinality (Matching (addr)) >= 2) =>
    /\ found \in Matching (addr)
    /\ \A j \in Matching (addr) :
         Popcount (sorted_blocks[found].sign_bitmask) >= Popcount (sorted_blocks[j].sign_bitmask)

\* the data rows whose block passes the classifier's test for address a
MatchingRows (a) == {k \in 1..Len (data) : Matches (a, c_entry (data[k]))}

\* C4 (amended): in the list the build step emits, an address matched by two or
\* more blocks is given a matching block of the greatest sort key: it comes
\* from a row whose sign_bitmask text is not smaller (as Python compares
\* str) than that of any row whose block matches.
C4_GreatestKeyWins ==
  (pc = "classified" /\ Cardinality (Matching (addr)) >= 2) =>
    /\ found \in Matching (addr)
    /\ \A k \in MatchingRows (addr) :
         \E k0 \in 1..Len (data) :
           /\ c_entry (data[k0]) = sorted_blocks[found]
           /\ ~str_lt (data[k0][5], data[k][5])

\* two blocks match and the one returned has fewer set bits than the other
C4_Witness ==
  /\ pc = "classified"
  /\ Cardinality (Matching (addr)) >= 2
  /\ found \in Matching (addr)
  /\ \E j \in Matching (addr) :
       Popcount (sorted_blocks[j].sign_bitmask) > Popcount (sorted_blocks[found].sign_bitmask)

\* the rows of l are exactly the rows of S, each once
IsOrderingOf (l, S) == Len (l) = Cardinality (S) /\ {l[i] : i \in DOMAIN l} = S

\* C5: the three rows (400000,..,FFC000,0,US), (000000,..,000000,0,ZZ),
\* (43F000,..,FFFFF0,1,US), in any input order, are emitted as
\* [block3, block1, block2] and 0x43F005 is given block3 (is_military = 1);
\* A = {0, 0} and B = {0xABCD00, 0xFFFF00} are emitted as [B, A] and 0xABCD12
\* is given B.
C5_Scenarios ==
  /\ (Generated /\ IsOrderingOf (data, {block1, block2, block3})) =>
       /\ [i \in 1..3 |-> sorted_blocks[i].sign_bitmask] = <<16777200, 16760832, 0>>
       /\ [i \in 1..3 |-> sorted_blocks[i].bitmask] = <<4452352, 4194304, 0>>
       /\ [i \in 1..3 |-> sorted_blocks[i].is_military] = <<1, 0, 0>>
       /\ (pc = "classified" /\ addr = 4452357) => found = 1
  /\ (Generated /\ IsOrderingOf (data, {blockA, blockB})) =>
       /\ [i \in 1..2 |-> sorted_blocks[i].sign_bitmask] = <<16776960, 0>>
       /\ [i \in 1..2 |-> sorted_blocks[i].bitmask] = <<11259136, 0>>
       /\ (pc = "classified" /\ addr = 11259154) => found = 1

\* the catch-all row came second of three and 0x43F005 has been classified
C5_Witness ==
  /\ pc = "classified"
  /\ data = <<block1, block2, block3>>
  /\ addr = 4452357
  /\ found = 1
  /\ sorted_blocks[found].is_military = 1

(***************************************************************************)
(* The layouts as the specification gives them: the fields in order, each  *)
(* with its kind ("s" bytes, "u" unsigned integer, "f" float), its width   *)
(* and the column (counted from 0) and base it is read from.               *)
(***************************************************************************)
Fs (w, c)    == [kind |-> "s", w |-> w, col |-> c, base |-> 0]
Fu (w, c, b) == [kind |-> "u", w |-> w, col |-> c, base |-> b]
Ff (c)       == [kind |-> "f", w |-> 4, col |-> c, base |-> 10]

Layout (n) ==
  CASE n = "aircraft"    -> <<Fs (6, 0), Fs (10, 1), Fs (10, 2), Fs (40, 5)>>
    [] n = "airports"    -> <<Fs (4, 2), Fs (3, 3), Fs (40, 1), Fs (20, 4), Fs (2, 5), Ff (6), Ff (7)>>
    [] n = "routes"      -> <<Fs (8, 0), Fs (20, 4)>>
    [] n = "code-blocks" -> <<Fu (4, 0, 16), Fu (4, 1, 16), Fu (4, 2, 10), Fu (4, 3, 16),
                              Fu (4, 4, 16), Fu (1, 5, 10), Fs (2, 6)>>

\* the number of columns each layout reads
LayoutCols (n) ==
  CASE n = "aircraft" -> 6 [] n = "airports" -> 8 [] n = "routes" -> 5 [] n = "code-blocks" -> 7

RECURSIVE WidthBefore(_, _)
WidthBefore (lay, i) == IF i <= 1 THEN 0 ELSE WidthBefore (lay, i - 1) + lay[i - 1].w

Zeros (n) == [i \in 1..n |-> 0]
Min (a, b) == IF a < b THEN a ELSE b

\* record k (from 1) of the table, as the bytes the header's length cuts out
RecordAt (k) ==
  SubSeq (bin_file, 28 + (k - 1) * SpecRecLen (name) + 1, 28 + k * SpecRecLen (name))

\* field i of the buffer buf, unpacked, is what the claim says of the row d,
\* which has the column the field is read from
FieldRoundTrips (lay, i, buf, d) ==
  LET f   == lay[i]
      raw == SubSeq (buf, WidthBefore (lay, i) + 1, WidthBefore (lay, i) + f.w)
      b   == to_bytes (d[f.col + 1])
      m   == Min (Len (b), f.w)
  IN  /\ f.col < Len (d)
      /\ CASE f.kind = "s" -> raw = SubSeq (b, 1, m) \o Zeros (f.w - m)
           [] f.kind = "u" -> le_value (raw) = int (d[f.col + 1], f.base).val
           [] f.kind = "f" -> Len (raw) = 4

\* C6: unpacking the buffer of an accepted row with the layout gives, for each
\* unsigned-integer field, the parsed value, and for each string field of
\* width w the first min(len, w) bytes of the UTF-8 input and then zero bytes;
\* a longer value is cut to its w-byte prefix without an error.
C6_RoundTrip ==
  \A k \in 1..Len (data) :
    /\ Len (RecordAt (k)) = SpecRecLen (name)
    /\ \A i \in 1..Len (Layout (name)) :
         FieldRoundTrips (Layout (name), i, RecordAt (k), data[k])

\* a row whose icao_addr takes 7 bytes (one character of two bytes) and a row
\* whose icao_addr has 7 characters have been written
C6_Witness ==
  /\ name = "aircraft"
  /\ pc = "done"
  /\ Len (data) = 2
  /\ Len (data[1][1]) = 6 /\ Len (to_bytes (data[1][1])) = 7
  /\ Len (data[2][1]) = 7

\* a numeric column of the row that is there but does not parse
BadNumeric (n, d) ==
  \/ /\ n = "code-blocks"
     /\ \/ \E c \in {0, 1, 3, 4} : c < Len (d) /\ int (d[c + 1], 16).err # ""
        \/ \E c \in {2, 5} : c < Len (d) /\ int (d[c + 1], 10).err # ""
  \/ /\ n = "airports"
     /\ \E c \in {6, 7} : c < Len (d) /\ float (d[c + 1]).err # ""

\* the data row of index i (from 1) is one the claim calls malformed
Malformed (i) ==
  \/ Len (csv_result[i + 1]) < LayoutCols (name)
  \/ BadNumeric (name, csv_result[i + 1])

\* C7: a row with fewer columns than the layout reads, or with a numeric column
\* that does not parse, makes the record function fail; no bytes of that row
\* reach the table, the row is not appended or counted, the encode never
\* completes.
C7_MalformedRowFails ==
  \A i \in 1..NumDataRows :
    Malformed (i) =>
      /\ rec_func (name, csv_result[i + 1]).err \in {"IndexError", "ValueError"}
      /\ Len (data) < i
      /\ Len (bin_file) <= 28 + (i - 1) * SpecRecLen (name)
      /\ pc \notin {"patched", "done", "generated", "classified"}
      /\ rec_num = 0

\* the second row did not parse, behind one record written
C7_Witness ==
  /\ pc = "failed"
  /\ exc = "ValueError"
  /\ rows = 2
  /\ Len (data) = 1
  /\ Len (bin_file) = 28 + SpecRecLen (name)

\* C8 (as claimed): every completed table was built from data rows that all
\* have the domain's number of columns; a row with fewer or more is an error.
C8_UniformArity ==
  Completed => \A i \in 1..NumDataRows : Len (csv_result[i + 1]) = LayoutCols (name)

\* C8 (amended): no data row is skipped (self.data is always the data rows read
\* so far, in order), and every completed table was built from all data rows,
\* each with at least the columns the layout reads; rows with more columns are
\* accepted.
C8_NoRowSkipped ==
  /\ data = SubSeq (csv_result, 2, Len (data) + 1)
  /\ pc \in {"loop", "seek0", "patched", "done", "failed"} =>
       Len (data) = (IF pc = "failed" /\ exc # "UnboundLocalError" THEN rows - 1
                     ELSE IF rows = -1 THEN 0 ELSE rows)
  /\ (Completed \/ pc = "patched") =>
       /\ Len (data) = NumDataRows
       /\ hdr_rec_num (bin_file) = NumDataRows
       /\ \A i \in 1..NumDataRows : Len (csv_result[i + 1]) >= LayoutCols (name)

\* a completed table built from rows of 6 and of 7 columns
C8_Witness ==
  /\ pc = "done"
  /\ name = "aircraft"
  /\ NumDataRows = 2
  /\ Len (csv_result[2]) = 6
  /\ Len (csv_result[3]) = 7

\* C9: when the record function fails on a data row the header is never
\* patched: the file does not begin with the magic and does not pass the
\* magic and size check, whatever was written before and even when a valid
\* table was there before.
C9_NoHeaderAfterFailure ==
  (pc = "failed" /\ exc \in {"IndexError", "ValueError", "struct.error"}) =>
    /\ ~HasMagic (bin_file)
    /\ ~ReaderAccepts (bin_exists, bin_file)

\* the first row failed where a valid table was before
C9_Witness ==
  /\ pc = "failed"
  /\ exc = "IndexError"
  /\ had_table
  /\ rows = 1
  /\ bin_file = <<>>

\* C10: between open and the header patch no reader takes the file as a
\* table; a reader that takes it finds every record of the header's count in
\* it; the header is written in the one step behind the loop and the file is
\* not written again.
C10_TwoPhaseWrite ==
  /\ [](pc \in {"opened", "loop", "seek0"} => ~ReaderAccepts (bin_exists, bin_file))
  /\ []((pc \in {"patched", "done"} /\ ReaderAccepts (bin_exists, bin_file)) =>
          /\ hdr_rec_num (bin_file) = NumDataRows
          /\ \A k \in 1..NumDataRows : RecordAt (k) = rec_func (name, csv_result[k + 1]).buf)
  /\ [][(pc # "idle" /\ HasMagic (bin_file') /\ ~HasMagic (bin_file)) =>
          (pc = "seek0" /\ pc' = "patched")]_vars
  /\ [][(pc \in {"patched", "done"}) => (bin_file' = bin_file)]_vars

\* a reader took the table between the header patch and the close
C10_Witness ==
  /\ pc = "patched"
  /\ reader = "accepted"
  /\ NumDataRows = 2
  /\ had_table

(***************************************************************************)
(* The fragment merger.                                                    *)
(***************************************************************************)
\* the text of a fragment: its content behind the byte order mark, if it has one
TextOf (fname) ==
  LET c == stat (fs, fname).content
  IN  IF c # <<>> /\ c[1] = "BOM" THEN Tail (c) ELSE c

\* a text behind its first line (nothing when it has one line or none)
DropFirstLine (t) ==
  LET ends == {k \in 1..Len (t) : t[k] = "\n"}
  IN  IF ends = {} THEN <<>>
      ELSE SubSeq (t, (CHOOSE e \in ends : \A o \in ends : e <= o) + 1, Len (t))

\* the first fragment whole, every later one behind its first line
RECURSIVE MergedText(_, _)
MergedText (d, k) ==
  IF k > Len (d) THEN <<>>
  ELSE (IF k = 1 THEN TextOf (d[k].fname) ELSE DropFirstLine (TextOf (d[k].fname)))
       \o MergedText (d, k + 1)

RECURSIVE DataLines(_, _)
DataLines (d, k) ==
  IF k > Len (d) THEN <<>>
  ELSE Tail (readlines (TextOf (d[k].fname))) \o DataLines (d, k + 1)

EndsLine (t) == t # <<>> /\ t[Len (t)] = "\n"

Merged == mpc \in {"merged", "encoding"}

\* C11: the merged dataset is the first line of the first fragment (without its
\* byte order mark) and then the lines behind the first of every fragment, in
\* the order of the traversal; when every fragment ends in a line end, its
\* lines are that one header line and then the data lines.  (A fragment has a
\* header line: the first fragment is not a file of no byte.)
C11_MergedDataset ==
  (Merged /\ _dict # <<>> /\ TextOf (_dict[1].fname) # <<>>) =>
    /\ csv_exists
    /\ csv_file = MergedText (_dict, 1)
    /\ (\A k \in 1..Len (_dict) : EndsLine (TextOf (_dict[k].fname))) =>
         readlines (csv_file) =
           <<readlines (TextOf (_dict[1].fname))[1]>> \o DataLines (_dict, 1)

\* two fragments of differing headers merged, the first with a byte order mark
\* in a file of bytes
C11_Witness ==
  /\ Merged
  /\ is_bin_file (name)
  /\ Len (_dict) = 2
  /\ stat (fs, _dict[1].fname).content = Frag3
  /\ stat (fs, _dict[2].fname).content = Frag2
  /\ Len (readlines (csv_file)) = 3

Walked == mpc \in {"walked", "merging", "merged", "encoding"}

\* C12 (as claimed): the fragments are visited in ascending order of their
\* full path strings.
C12_AscendingPathStrings ==
  Walked => \A j, k \in 1..Len (_dict) : j < k => str_lt (_dict[j].fname, _dict[k].fname)

\* the names a path is made of
RECURSIVE Components(_)
Components (t) ==
  LET cuts == {k \in 1..Len (t) : t[k] = "/"}
      k    == CHOOSE e \in cuts : \A o \in cuts : e <= o
  IN  IF cuts = {} THEN <<t>>
      ELSE <<SubSeq (t, 1, k - 1)>> \o Components (SubSeq (t, k + 1, Len (t)))

\* p before q, name by name
RECURSIVE comp_lt(_, _)
comp_lt (p, q) ==
  IF q = <<>> THEN FALSE
  ELSE IF p = <<>> THEN TRUE
  ELSE IF Head (p) # Head (q) THEN str_lt (Head (p), Head (q))
  ELSE comp_lt (Tail (p), Tail (q))

\* the regular files below the handler's directory that are named *.csv
FragmentsOf (files, top) ==
  {e.fqfn : e \in {x \in files : /\ x.kind = "file"
                                 /\ IsPrefix (top \o <<"/">>, x.fqfn)
                                 /\ IsSuffix (<<".", "c", "s", "v">>, x.fqfn)}}

\* C12 (amended): the fragments visited are the regular *.csv files of the
\* tree, each once, in ascending order of their paths compared name by name
\* (every directory's entries in ascending order of their names, a directory's
\* fragments where the directory's name stands); the header kept is the one of
\* the fragment that is first in that order.
C12_AscendingByName ==
  Walked =>
    /\ {_dict[k].fname : k \in 1..Len (_dict)} = FragmentsOf (fs, csv_dir (name))
    /\ \A j, k \in 1..Len (_dict) :
         j < k => comp_lt (Components (_dict[j].fname), Components (_dict[k].fname))
    /\ (Merged /\ _dict # <<>> /\ TextOf (_dict[1].fname) # <<>>) =>
         \E f \in FragmentsOf (fs, csv_dir (name)) :
           /\ \A g \in FragmentsOf (fs, csv_dir (name)) \ {f} :
                comp_lt (Components (f), Components (g))
           /\ IsPrefix (readlines (TextOf (f))[1], csv_file)

\* 'x.csv' of the directory 'a' was visited before the file 'a-b.csv', whose
\* path string is the smaller one, and its header was kept
C12_Witness ==
  /\ Merged
  /\ Len (_dict) = 3
  /\ str_lt (_dict[2].fname, _dict[1].fname)
  /\ str_lt (_dict[3].fname, _dict[1].fname)
  /\ _dict[1].header # _dict[2].header

\* a table with the 8 bytes of 'created' set to zero
WithoutCreated (file) ==
  [k \in 1..Len (file) |-> IF k > 12 /\ k <= 20 /\ Len (file) >= 28 THEN 0 ELSE file[k]]

Normalized (r) == [r EXCEPT !.bin = WithoutCreated (r.bin)]

\* C13: the second run over the same fragments ends as the first one did, with
\* the same merged dataset and the same table but for the 8 bytes of
\* 'created', whatever files the first run found and left.
C13_Deterministic ==
  (run = 2 /\ RunEnded) => Normalized (Results) = Normalized (first_run[1])

\* two runs that wrote a table of two fragments at different times, the first
\* over files of an earlier run
C13_Witness ==
  /\ run = 2
  /\ pc = "done"
  /\ had_table
  /\ Len (_dict) = 2
  /\ Len (data) = 2
  /\ bin_file # first_run[1].bin

\* the handler's directory is there and holds no fragment
NoFragments == IsDir (fs, csv_dir (name)) /\ FragmentsOf (fs, csv_dir (name)) = {}

\* C14: a domain whose directory tree exists but holds no fragment makes the
\* merge fail: create_csv_file never ends with a merged dataset file written
\* and reported.
C14_NoFragmentsFails ==
  NoFragments => ~(Merged /\ csv_exists)

(***************************************************************************)
(* main.                                                                   *)
(***************************************************************************)
MergeNames == {"aircraft", "airports", "routes"}

\* C15: in every run of main in which some merging domain has no fragment or
\* no directory, no domain's table file is ever opened or written.
C15_DiscoveryErrorsFirst ==
  (\E h \in MergeNames : m_in[h].root \in {"missing", "empty"}) =>
    \A h \in Names : m_bin[h] = "none"

\* some step of some domain gave a status other than 0
SomeStepFailed ==
  \/ m_exit = "1"
  \/ \E h \in Names : m_ran[h].done /\ m_ran[h].rc # 0

\* C16: when main has ended and some domain's step failed, or with --test some
\* checker's run returned non-zero, the exit status is not 0; success is
\* reported only when every checker's run returned 0.
C16_NonZeroOnFailure ==
  /\ (m_exit \in {"0", "1"} /\ SomeStepFailed) => m_exit = "1"
  /\ m_out = "All tests succeeded!" => \A h \in Names : m_ran[h].done /\ m_ran[h].rc = 0

(***************************************************************************)
(* The generated checker.                                                  *)
(***************************************************************************)
\* the file has a header and the size 28 + rec_num * rec_len, the product
\* taken over the integers (it is below 2^64)
DeclaredSizeIs ==
  /\ Len (c_file) >= 28
  /\ le_bytes (9, Len (c_file))
       = add_bytes (mul_bytes (SubSeq (c_file, 21, 24), SubSeq (c_file, 25, 28), 8),
                    le_bytes (1, 28), 9)

\* C17: whenever the size of the file is not 28 + rec_num * rec_len, for any
\* rec_num and rec_len of 32 bits, the checker ends with a non-zero exit code
\* and has decoded no record.
C17_SizeCheckRejects ==
  (c_exists /\ c_pc \in {"loop", "ended"} /\ ~DeclaredSizeIs)
    => (c_exit = "1" /\ c_recs = <<>>)

\* the first 12 bytes of the file are the marker
MagicThere == Len (c_file) >= 12 /\ SubSeq (c_file, 1, 12) = to_bytes (bin_marker)

\* C18: when the first 12 bytes of the file differ from 'BIN-dump1090', the
\* checker ends with a non-zero exit code.
C18_MagicVerified ==
  (c_exists /\ c_pc = "ended" /\ ~MagicThere) => c_exit # "0"

\* the checker has opened the file and the header has passed its size check
PassedHeaderCheck == c_exists /\ c_pc \in {"loop", "ended"} /\ ~SizeDiffers

\* C19: for a table that the checker can open and that passes the header
\* check, the exit code is 0 exactly when the number of ordering violations
\* counted over the records (num_err) is 0.
C19_ExitCodeIffNoViolation ==
  (PassedHeaderCheck /\ c_pc = "ended") => (c_exit = "0" <=> num_err = 0)

\* the file is a table of the domain the checker was built for: a header of
\* 28 bytes with rec_len = sizeof (RECORD), and rec_num records
WellFormed ==
  /\ c_exists
  /\ Len (c_file) >= 28
  /\ SubSeq (c_file, 25, 28) = le_bytes (4, sizeof_RECORD (c_name))
  /\ SubSeq (c_file, 21, 24) = le_bytes (4, (Len (c_file) - 28) \div sizeof_RECORD (c_name))
  /\ (Len (c_file) - 28) % sizeof_RECORD (c_name) = 0

NumRecords == (Len (c_file) - 28) \div sizeof_RECORD (c_name)

\* the key field of record k of the table (from 1): the bytes of the field
KeyField (k) ==
  SubSeq (c_file, 28 + (k - 1) * sizeof_RECORD (c_name) + 1,
                  28 + (k - 1) * sizeof_RECORD (c_name) + FIELD_1_SIZE (c_name))

\* a < b in the lexicographic order of two sequences of numbers
SeqLess (a, b) ==
  \E k \in 1..Len (b) :
    /\ \A j \in 1..(k - 1) : j <= Len (a) /\ a[j] = b[j]
    /\ k > Len (a) \/ a[k] < b[k]

\* the text of a key field: its bytes before the first NUL
KeyText (key) ==
  LET nuls == {k \in 1..Len (key) : key[k] = 0}
  IN  IF nuls = {} THEN key
      ELSE SubSeq (key, 1, (CHOOSE k \in nuls : \A j \in nuls : k <= j) - 1)

\* the text of a key field with A-Z replaced by a-z
Folded (key) ==
  [k \in 1..Len (KeyText (key)) |->
     IF KeyText (key)[k] \in 65..90 THEN KeyText (key)[k] + 32 ELSE KeyText (key)[k]]

\* the checker has run through a table of a string domain
CheckedStrings ==
  /\ c_name # "code-blocks"
  /\ WellFormed
  /\ c_pc = "ended"

\* the key fields are in ascending order, equal neighbours included
KeysAscending ==
  \A k \in 2..NumRecords : ~SeqLess (KeyField (k), KeyField (k - 1))

\* C20 as stated: the checker counts no violation exactly when no record's
\* key is lexicographically less than its predecessor's.
C20_ZeroIffAscending ==
  CheckedStrings => (num_err = 0 <=> KeysAscending)

\* the records the checker counts: a key that is not empty and, letters
\* taken as lower case, is not greater than its predecessor's
Violations ==
  {k \in 2..NumRecords :
     /\ KeyText (KeyField (k)) # <<>>
     /\ ~SeqLess (Folded (KeyField (k - 1)), Folded (KeyField (k)))}

\* C20 (amended): for a table of the aircraft, airport or route domain the
\* checker counts the records whose key is not empty and, ignoring the case
\* of A-Z, is not strictly greater than the key of the record before; it
\* counts none exactly when there is no such record.
C20_CountsNotGreater ==
  CheckedStrings => /\ num_err = Cardinality (Violations)
                    /\ c_exit = (IF Violations = {} THEN "0" ELSE "1")

\* a table with two equal, non-empty neighbouring keys has been checked
C20_Witness ==
  /\ CheckedStrings
  /\ NumRecords = 2
  /\ KeyField (1) = KeyField (2)
  /\ KeyText (KeyField (2)) # <<>>
  /\ num_err = 1

(***************************************************************************)
(* The classifier called from several threads.                             *)
(***************************************************************************)
\* C21: a call of the classifier leaves sorted_blocks and num_sorted_blocks
\* as they are, and in every interleaving of the calls of several threads a
\* call returns the block that the call run alone returns for its address
\* and the table.
C21_PureClassifier ==
  /\ [](\A t \in Threads :
          t_pc[t] = "returned"
            => t_ret[t] = aircraft_find_block (t_addr[t], sorted_blocks, num_sorted_blocks))
  /\ [][(pc \in {"generated", "classified"})
          => (sorted_blocks' = sorted_blocks /\ num_sorted_blocks' = num_sorted_blocks)]_vars

\* one call has returned a block while another call, of another address, is
\* in the middle of its scan
C21_Witness ==
  /\ t_pc[1] = "returned"
  /\ t_ret[1] > 1
  /\ t_pc[2] = "scan"
  /\ t_i[2] >= 1
  /\ t_addr[1] # t_addr[2]

(***************************************************************************)
(* The methods of a handler in any order.                                  *)
(***************************************************************************)
\* C22: no operation of a handler changes the content of an input CSV file:
\* the files below zip_dir, among them code-blocks.csv, which is
\* self.csv_result of the handler built with no_csv.
C22_FragmentsNeverMutated ==
  [][fs' = fs /\ (name = "code-blocks" => csv_file' = csv_file)]_vars

(***************************************************************************)
(* The rows the encoder takes.                                             *)
(***************************************************************************)
\* C23: in a completed table the header counts every row but row 0, and
\* record i (from 0) is the encoding of row i + 1 of the merged stream,
\* whatever row 0 holds; self.data holds the same rows in the same order.
C23_SkipsRowZeroOnly ==
  Completed =>
    /\ hdr_rec_num (bin_file) = Len (csv_result) - 1
    /\ Len (bin_file) = 28 + (Len (csv_result) - 1) * rec_len_of (name)
    /\ \A i \in 0..(Len (csv_result) - 2) :
         /\ SubSeq (bin_file, 28 + i * rec_len_of (name) + 1, 28 + (i + 1) * rec_len_of (name))
              = rec_func (name, csv_result[i + 2]).buf
         /\ data[i + 1] = csv_result[i + 2]

\* a completed table of one record whose merged stream began with a data
\* row that the record function takes, other than the row behind it
C23_Witness ==
  /\ pc = "done"
  /\ Len (csv_result) = 2
  /\ csv_result[1] # HeaderRow
  /\ rec_func (name, csv_result[1]).err = ""
  /\ csv_result[1] # csv_result[2]
  /\ hdr_rec_num (bin_file) = 1

(***************************************************************************)
(* Prefix masks.                                                           *)
(***************************************************************************)
\* 2^k
RECURSIVE Pow2(_)
Pow2 (k) == IF k = 0 THEN 1 ELSE 2 * Pow2 (k - 1)

\* the mask of the k highest bits of a 24-bit address
PrefixMaskOf (k) == Pow2 (24) - Pow2 (24 - k)

IsPrefixMask (m) == \E k \in 0..24 : m = PrefixMaskOf (k)

\* the number of bits of a prefix mask
MaskLen (m) == CHOOSE k \in 0..24 : m = PrefixMaskOf (k)

\* every sign_bitmask of the array is a prefix mask and the array is in
\* non-increasing order of the numeric sign_bitmask
PrefixOrdered ==
  /\ \A i \in 1..num_sorted_blocks : IsPrefixMask (sorted_blocks[i].sign_bitmask)
  /\ \A i, j \in 1..num_sorted_blocks :
       i < j => sorted_blocks[i].sign_bitmask >= sorted_blocks[j].sign_bitmask

\* C24: when every sign_bitmask is a prefix mask and the array is in
\* non-increasing numeric order of sign_bitmask, the block returned for an
\* address is a matching block with the longest mask among the matching
\* blocks (and NULL when none matches).
C24_LongestPrefixMatch ==
  (pc = "classified" /\ PrefixOrdered) =>
    IF Matching (addr) = {} THEN found = 0
    ELSE /\ found \in Matching (addr)
         /\ \A j \in Matching (addr) :
              MaskLen (sorted_blocks[found].sign_bitmask)
                >= MaskLen (sorted_blocks[j].sign_bitmask)

\* an address matched by blocks of two different prefix lengths, behind a
\* block that does not match it, has been classified
C24_Witness ==
  /\ pc = "classified"
  /\ PrefixOrdered
  /\ Cardinality ({MaskLen (sorted_blocks[j].sign_bitmask) : j \in Matching (addr)}) = 2
  /\ num_sorted_blocks = 3
  /\ found > 0

(***************************************************************************)
(* The ordering check of the allocation blocks.                            *)
(***************************************************************************)
\* the start of a record as the pair of its high and low 16 bits
StartOf (rec) == <<le_value (SubSeq (rec, 3, 4)), le_value (SubSeq (rec, 1, 2))>>

\* a > b for two such pairs: the order of the unsigned 32-bit numbers
StartGreater (a, b) == a[1] > b[1] \/ (a[1] = b[1] /\ a[2] > b[2])

\* the records of the table as they lie in the file
FileRecord (k) ==
  SubSeq (c_file, 28 + (k - 1) * sizeof_RECORD (c_name) + 1, 28 + k * sizeof_RECORD (c_name))

\* C25: for the allocation blocks the number of violations counted is the
\* number of records i >= 1 whose predecessor's start is greater than their
\* own, the starts compared as unsigned numbers of 32 bits: at every moment
\* over the records decoded so far, and at the end of a table over the
\* records of the file.
C25_CountsDescendingStarts ==
  c_name = "code-blocks" =>
    /\ num_err = Cardinality ({k \in 2..Len (c_recs) :
                                 StartGreater (StartOf (c_recs[k - 1]), StartOf (c_recs[k]))})
    /\ (WellFormed /\ c_pc = "ended") =>
         /\ c_exit \in {"0", "1"}
         /\ Len (c_recs) = NumRecords
         /\ \A k \in 1..NumRecords : c_recs[k] = FileRecord (k)

\* a table of the blocks whose first start has the top bit set and whose
\* second start is 1 has been checked: one violation
C25_Witness ==
  /\ c_name = "code-blocks"
  /\ WellFormed
  /\ c_pc = "ended"
  /\ NumRecords = 2
  /\ StartOf (FileRecord (1)) = <<32768, 0>>
  /\ StartOf (FileRecord (2)) = <<0, 1>>
  /\ num_err = 1

(***************************************************************************)
(* The records the checker decodes.                                        *)
(***************************************************************************)
\* C26: when the header has passed the size check and the checker has ended,
\* it has decoded rec_num records, record i (from 0) being the rec_len bytes
\* of the file at offset 28 + i * rec_len, rec_len and rec_num as the header
\* declares them.
C26_DecodesEveryRecord ==
  (PassedHeaderCheck /\ c_pc = "ended") =>
    LET rl == le_value (hdr_rec_len_bytes)
    IN  /\ Len (c_recs) = le_value (hdr_rec_num_bytes)
        /\ \A i \in 0..(Len (c_recs) - 1) :
             /\ rl <= Len (c_file)
             /\ c_recs[i + 1] = SubSeq (c_file, 28 + i * rl + 1, 28 + (i + 1) * rl)


\* the statement of main that calls h.create_c_test ()
CTestStep (h) == CHOOSE i \in DOMAIN Stmts : Stmts[i] = Stmt ("create_c_test", h)

\* C27: create_c_test on a handler whose rec_num is 0 ends the run with exit
\* status 1 and writes no checker source; in every other case the checker is
\* generated with the rec_len and the rec_num of the completed create_bin_file
C27_CheckerAfterEncode ==
  \A h \in Names :
    /\ m_c_test[h].written =>
         /\ m_bin[h] = "written"
         /\ m_rec_num[h] > 0
         /\ m_c_test[h].rec_num = m_rec_num[h]
         /\ m_c_test[h].rec_num = Len (csv_of (h)) - 1
         /\ m_c_test[h].rec_len = rec_len_of (h)
    /\ m_step > CTestStep (h) => m_c_test[h].written
    /\ (m_step = CTestStep (h) /\ m_exit # "running") =>
         /\ m_rec_num[h] = 0
         /\ m_exit = "1"
         /\ ~m_c_test[h].written

\* one run stopped at a create_c_test with rec_num 0 behind a checker that was generated
C27_Witness ==
  \E h, g \in Names :
    /\ h # g
    /\ m_step = CTestStep (h)
    /\ m_exit = "1"
    /\ m_bin[h] = "written"
    /\ m_rec_num[h] = 0
    /\ m_c_test[g].written
    /\ m_c_test[g].rec_num > 0



\* the lines of every fragment behind its first line, in the order of the traversal
RECURSIVE NonHeaderLines(_, _)
NonHeaderLines (d, k) ==
  IF k > Len (d) THEN <<>>
  ELSE LET ls == readlines (TextOf (d[k].fname))
       IN  (IF ls = <<>> THEN <<>> ELSE Tail (ls)) \o NonHeaderLines (d, k + 1)

\* the rows of the merged dataset behind its header row
MergedRows ==
  LET rs == csv_reader (csv_file)
  IN  IF rs = <<>> THEN <<>> ELSE Tail (rs)

\* C28: no data row is lost or fused by the merge: for every sequence of
\* fragments, those without a line end behind the last line and those of no
\* line included, the merged dataset has behind its header as many rows as the
\* fragments have lines behind their first, and each such line is a row of its own
C28_NoRowLostOrFused ==
  Merged =>
    /\ Len (MergedRows) = Len (NonHeaderLines (_dict, 1))
    /\ \A k \in 1..Len (MergedRows) :
         k <= Len (NonHeaderLines (_dict, 1)) =>
           MergedRows[k] = csv_row (NonHeaderLines (_dict, 1)[k])


\* C29: behind every completed create_bin_file of a handler, whatever calls
\* came before it, len (data) is rec_num and is the number of records in the
\* header of the table; so the num_sorted_blocks gen_c_file emits is the
\* number of entries of the sorted_blocks array it emits
C29_DataIsRecNum ==
  /\ pc \in {"done", "generated"} =>
       /\ Len (data) = rec_num
       /\ hdr_rec_num (bin_file) = rec_num
  /\ pc = "generated" => num_sorted_blocks = Len (sorted_blocks)


\* a bit of bitmask is clear in sign_bitmask
Unmatchable (b) == BitAnd (b.bitmask, b.sign_bitmask) # b.bitmask

CatchAll (b) == b.sign_bitmask = 0 /\ b.bitmask = 0

\* the property of one array of blocks, for every address
NeverUnmatchableNorBehindCatchAll (blocks, num) ==
  \A a \in Addresses :
    LET f == aircraft_find_block (a, blocks, num)
    IN  /\ f # 0 => ~Unmatchable (blocks[f])
        /\ \A i \in 1..num :
             CatchAll (blocks[i]) =>
               /\ Matches (a, blocks[i])
               /\ f # 0
               /\ f <= i

\* arrays in any order, the catch-all block before blocks that match as well
AnyOrderArrays ==
  {[i \in DOMAIN q |-> c_entry (q[i])] : q \in Orderings ({block1, block2, block3})}

\* C30: a block whose bitmask has a bit that is clear in its sign_bitmask is
\* returned for no address; a block with sign_bitmask 0 and bitmask 0 matches
\* every address, so with such a block in the list the classifier never
\* returns NULL and never returns a block placed behind it
C30_UnmatchableAndCatchAll ==
  pc \in {"generated", "classified"} =>
    /\ NeverUnmatchableNorBehindCatchAll (sorted_blocks, num_sorted_blocks)
    /\ \A arr \in AnyOrderArrays : NeverUnmatchableNorBehindCatchAll (arr, Len (arr))
    /\ pc = "classified" =>
         /\ found # 0 => ~Unmatchable (sorted_blocks[found])
         /\ \A i \in 1..num_sorted_blocks :
              CatchAll (sorted_blocks[i]) => (found # 0 /\ found <= i)

\* an address classified by the catch-all block behind a block that no address matches
C30_Witness ==
  /\ pc = "classified"
  /\ num_sorted_blocks = 2
  /\ Unmatchable (sorted_blocks[1])
  /\ sorted_blocks[1].sign_bitmask # 0
  /\ CatchAll (sorted_blocks[2])
  /\ found = 2

====
